---- MODULE Spec2Model ----
(***************************************************************************)
(* Model of the challenge cache (ChallengeProvider), of the goal handlers  *)
(* of the challenge page that drive it, and of the part of the backend     *)
(* they talk to.                                                           *)
(*                                                                         *)
(* A Date is the number of hours since 2024-01-01T00:00:00Z.  A calendar   *)
(* day is the number of days since 2024-01-01, which stands for the string *)
(* 'yyyy-MM-dd'.  A period key `daily-2024-01-03` is <<"daily", 2, 0>>,    *)
(* `weekly-2024-02` is <<"weekly", 2024, 2>>, `monthly-2024-02` is         *)
(* <<"monthly", 2024, 2>> and `once` is <<"once", 0, 0>>.                  *)
(* A JavaScript object used as a map is a function whose DOMAIN is the set *)
(* of keys that are present.                                               *)
(***************************************************************************)
EXTENDS Integers, Sequences, FiniteSets, TLC

\* ---------------------------------------------------------------- bounds
MaxTicks == 2          \* clock steps of half a freshness window
MaxCallers == 2        \* awaited getChallenge / getStats calls outstanding at the same time
MaxLogs == 2           \* completion rows ever inserted in the backend
MaxWrites == 2         \* goal handlers started
TzOffsetHours == 0     \* local time = UTC + TzOffsetHours
SelectedDay == 2       \* the local calendar day the page shows (2024-01-03)
MaxJoins == 2          \* joinChallengeByCode calls started
MaxUpdates == 2        \* updateChallenge calls started

\* ------------------------------------------------------- program constants
CACHE_TTL_MS == 30000

EMPTY_STATS == [scores |-> <<>>, goalScores |-> <<>>, periodCounts |-> <<>>, dailyPoints |-> <<>>]

\* ------------------------------------------------------------ the world
ChallengeIds == {"c1"}
\* the challenges whose page can be open: a second one beside c1
PageIds == ChallengeIds \cup {"c3"}
Users == {"u1", "u2"}
user == "u1"                       \* the signed-in user (useAuth)
TickMs == CACHE_TTL_MS \div 2
StartNow == 2 * CACHE_TTL_MS       \* Date.now() is far beyond one window

\* rows of challenge_goals / challenge_participants+profiles in the backend
SrvGoals(id) == << [id |-> "g1", points |-> 10, frequency |-> "daily", maxCompletions |-> 1] >>
\* the challenge that can be joined by its invite code: its row in `challenges`
JoinIds == {"c2"}
SrvJoinCode(id) == "K7"
SrvMaxPlayers(id) == 2
SrvStatus(id) == "active"
SrvParticipants(id) == << [user_id |-> "u1", display_name |-> "Ann"], [user_id |-> "u2", display_name |-> ""] >>

\* ---------------------------------------------------------- small helpers
RECURSIVE SetToSeq(_)
SetToSeq(S) == IF S = {} THEN <<>>
               ELSE LET x == CHOOSE y \in S : TRUE IN <<x>> \o SetToSeq(S \ {x})

RECURSIVE SumPoints(_)
SumPoints(S) == IF S = {} THEN 0
                ELSE LET x == CHOOSE y \in S : TRUE IN x.points_at_time + SumPoints(S \ {x})

Put(m, k, v) == [x \in DOMAIN m \cup {k} |-> IF x = k THEN v ELSE m[x]]
Delete(m, k) == [x \in DOMAIN m \ {k} |-> m[x]]
GetOr(m, k, d) == IF k \in DOMAIN m THEN m[k] ELSE d
Max0(n) == IF n < 0 THEN 0 ELSE n

\* ------------------------------------------------------------ dates
startOfDay(day) == 24 * day - TzOffsetHours          \* local midnight of a local day
LocalDay(date) == (date + TzOffsetHours) \div 24     \* format(date, 'yyyy-MM-dd')
IsoDay(date) == date \div 24                         \* date.toISOString().slice(0, 10)

\* calendar of the days -365 .. 730 (2023 .. 2025), 2024 being a leap year
YearOf(day) == IF day < 0 THEN 2023 ELSE IF day < 366 THEN 2024 ELSE 2025
DayOfYear(day) == IF day < 0 THEN day + 365 ELSE IF day < 366 THEN day ELSE day - 366
MonthStarts(year) == IF year = 2024 THEN <<0, 31, 60, 91, 121, 152, 182, 213, 244, 274, 305, 335>>
                     ELSE <<0, 31, 59, 90, 120, 151, 181, 212, 243, 273, 304, 334>>
MonthOf(day) == Cardinality({m \in 1..12 : MonthStarts(YearOf(day))[m] <= DayOfYear(day)})
\* 'ww': local week of year, weeks start on Sunday, week 1 contains January 1st.
\* The first weeks start on 2023-01-01, 2023-12-31, 2024-12-29, 2025-12-28.
WeekOf(day) == IF day >= 727 THEN (day - 727) \div 7 + 1
               ELSE IF day >= 363 THEN (day - 363) \div 7 + 1
               ELSE IF day >= -1 THEN (day + 1) \div 7 + 1
               ELSE (day + 365) \div 7 + 1

getPeriodKey(frequency, date) ==
    IF frequency = "daily" THEN <<"daily", LocalDay(date), 0>>
    ELSE IF frequency = "weekly" THEN <<"weekly", YearOf(LocalDay(date)), WeekOf(LocalDay(date))>>
    ELSE IF frequency = "monthly" THEN <<"monthly", YearOf(LocalDay(date)), MonthOf(LocalDay(date))>>
    ELSE <<"once", 0, 0>>

\* ------------------------------------------------- backend read queries
\* get_challenge_stats: the four aggregates over the rows of one challenge
StatsDay(row) == IF row.period_key[1] = "daily" THEN row.period_key[2] ELSE IsoDay(row.completion_at)

get_challenge_stats(rows, id) ==
    LET R == {r \in rows : r.challenge_id = id}
        scoreKeys == SetToSeq({r.user_id : r \in R})
        goalKeys == SetToSeq({<<r.user_id, r.goal_id>> : r \in R})
        periodKeys == SetToSeq({<<r.user_id, r.goal_id, r.period_key>> : r \in R})
        dayKeys == SetToSeq({<<r.user_id, r.goal_id, StatsDay(r)>> : r \in R})
    IN [scores |-> [i \in 1..Len(scoreKeys) |->
                      [user_id |-> scoreKeys[i],
                       total_score |-> SumPoints({r \in R : r.user_id = scoreKeys[i]})]],
        goalScores |-> [i \in 1..Len(goalKeys) |->
                      [user_id |-> goalKeys[i][1], goal_id |-> goalKeys[i][2],
                       score |-> SumPoints({r \in R : <<r.user_id, r.goal_id>> = goalKeys[i]})]],
        periodCounts |-> [i \in 1..Len(periodKeys) |->
                      [user_id |-> periodKeys[i][1], goal_id |-> periodKeys[i][2],
                       period_key |-> periodKeys[i][3],
                       count |-> Cardinality({r \in R : <<r.user_id, r.goal_id, r.period_key>> = periodKeys[i]})]],
        dailyPoints |-> [i \in 1..Len(dayKeys) |->
                      [user_id |-> dayKeys[i][1], goal_id |-> dayKeys[i][2], day |-> dayKeys[i][3],
                       points |-> SumPoints({r \in R : <<r.user_id, r.goal_id, StatsDay(r)>> = dayKeys[i]})]]]

\* mapChallenge as getChallengeById calls it: goals, names, scoreMap = {}
mapGoal(g) == [id |-> g.id, points |-> g.points, frequency |-> g.frequency, maxCompletions |-> g.maxCompletions]
mapChallenge(id, dbGoals, dbParticipants) ==
    [id |-> id,
     goals |-> [i \in 1..Len(dbGoals) |-> mapGoal(dbGoals[i])],
     participants |-> [i \in 1..Len(dbParticipants) |->
        [userId |-> dbParticipants[i].user_id,
         name |-> IF dbParticipants[i].display_name = "" THEN "Anonymous" ELSE dbParticipants[i].display_name,
         avatar |-> "dicebear",
         score |-> 0]]]

getChallengeById(id) == mapChallenge(id, SrvGoals(id), SrvParticipants(id))

\* one entry of the list getAllChallenges returns: no goals, blank names
ListEntry(id) ==
    [id |-> id,
     goals |-> <<>>,
     participants |-> [i \in 1..Len(SrvParticipants(id)) |->
        [userId |-> SrvParticipants(id)[i].user_id, name |-> "", avatar |-> "", score |-> 0]]]

\* the list entry of a joinable challenge, from the rows P of challenge_participants
JoinedEntry(P, id) ==
    LET rows == {r \in P : r.challenge_id = id}
        RECURSIVE ByRowId(_)
        ByRowId(R) == IF R = {} THEN <<>>
                      ELSE LET r == CHOOSE x \in R : \A y \in R : x.n <= y.n
                           IN <<[userId |-> r.user_id, name |-> "", avatar |-> "", score |-> 0]>> \o ByRowId(R \ {r})
    IN [id |-> id, goals |-> <<>>, participants |-> ByRowId(rows)]

\* P: the rows of challenge_participants of the joinable challenges
getAllChallenges(P, userId) ==
    SetToSeq({ListEntry(id) : id \in {c \in ChallengeIds :
                 \E i \in 1..Len(SrvParticipants(c)) : SrvParticipants(c)[i].user_id = userId}})
    \o SetToSeq({JoinedEntry(P, id) : id \in {c \in JoinIds :
                 \E r \in P : r.challenge_id = c /\ r.user_id = userId}})

\* --------------------------------------------- cache: pure merge functions
\* variant: the incoming score replaces the cached one
mergeParticipants_IncomingScore(existing, incoming) ==
    [i \in 1..Len(incoming) |->
        LET p == incoming[i]
            priors == {j \in 1..Len(existing) : existing[j].userId = p.userId}
        IN IF priors = {} THEN p
           ELSE LET prior == existing[CHOOSE j \in priors : \A k \in priors : k <= j]
                IN [userId |-> p.userId,
                    score |-> p.score,
                    name |-> IF p.name # "" THEN p.name ELSE prior.name,
                    avatar |-> IF p.avatar # "" THEN p.avatar ELSE prior.avatar]]

\* the participant merge shared by the list refresh and the detail refresh
mergeParticipants(existing, incoming) ==
    [i \in 1..Len(incoming) |->
        LET p == incoming[i]
            priors == {j \in 1..Len(existing) : existing[j].userId = p.userId}
        IN IF priors = {} THEN p
           ELSE LET prior == existing[CHOOSE j \in priors : \A k \in priors : k <= j]
                IN [userId |-> p.userId,
                    score |-> prior.score,
                    name |-> IF p.name # "" THEN p.name ELSE prior.name,
                    avatar |-> IF p.avatar # "" THEN p.avatar ELSE prior.avatar]]

\* variant: the list entry's goals always replace the cached ones
RECURSIVE mergeList_IncomingGoals(_, _, _)
mergeList_IncomingGoals(prev, next, data) ==
    IF data = <<>> THEN next
    ELSE LET c == Head(data)
             merged == IF c.id \notin DOMAIN prev THEN c
                       ELSE [id |-> c.id,
                             goals |-> c.goals,
                             participants |-> mergeParticipants(prev[c.id].participants, c.participants)]
         IN mergeList_IncomingGoals(prev, Put(next, c.id, merged), Tail(data))

\* setChallengeCache(prev => ...) of refreshChallenges, for a list `data`
RECURSIVE mergeList(_, _, _)
mergeList(prev, next, data) ==
    IF data = <<>> THEN next
    ELSE LET c == Head(data)
             merged == IF c.id \notin DOMAIN prev THEN c
                       ELSE [id |-> c.id,
                             goals |-> IF Len(prev[c.id].goals) > 0 THEN prev[c.id].goals ELSE c.goals,
                             participants |-> mergeParticipants(prev[c.id].participants, c.participants)]
         IN mergeList(prev, Put(next, c.id, merged), Tail(data))

\* variant: the cached participants are kept and the incoming ones merged into them
mergeDetail_KeepCached(prev, id, latest) ==
    IF id \notin DOMAIN prev THEN Put(prev, id, latest)
    ELSE Put(prev, id, [latest EXCEPT !.participants =
            mergeParticipants(latest.participants, prev[id].participants)])

\* setChallengeCache(prev => ...) of fetchChallengeDetail
mergeDetail(prev, id, latest) ==
    IF id \notin DOMAIN prev THEN Put(prev, id, latest)
    ELSE Put(prev, id, [latest EXCEPT !.participants = mergeParticipants(prev[id].participants, latest.participants)])

\* scoreMap[p.userId] || 0 : the last row of a user wins
scoreOf(scores, userId) ==
    LET rows == {j \in 1..Len(scores) : scores[j].user_id = userId}
    IN IF rows = {} THEN 0 ELSE scores[CHOOSE j \in rows : \A k \in rows : k <= j].total_score

\* variant: the scores are written to the participants of every cached challenge
applyStatsToParticipants_EveryChallenge(prev, id, stats) ==
    IF id \notin DOMAIN prev THEN prev
    ELSE [c \in DOMAIN prev |-> [prev[c] EXCEPT !.participants =
            [i \in 1..Len(prev[c].participants) |->
                [prev[c].participants[i] EXCEPT !.score = scoreOf(stats.scores, prev[c].participants[i].userId)]]]]

\* setChallengeCache(prev => ...) of fetchStats
applyStatsToParticipants(prev, id, stats) ==
    IF id \notin DOMAIN prev THEN prev
    ELSE Put(prev, id, [prev[id] EXCEPT !.participants =
            [i \in 1..Len(prev[id].participants) |->
                [prev[id].participants[i] EXCEPT !.score = scoreOf(stats.scores, prev[id].participants[i].userId)]]])

\* ------------------------------------------ cache: optimistic mutations
\* A CompletionLog is [id, challengeId, goalId, userId, timestamp, pointsEarned].
MapRows(rows, hit(_), change(_)) == [i \in 1..Len(rows) |-> IF hit(rows[i]) THEN change(rows[i]) ELSE rows[i]]
HasRow(rows, hit(_)) == \E i \in 1..Len(rows) : hit(rows[i])
\* findIndex + replace: only the first matching row is changed
FirstRow(rows, hit(_)) == CHOOSE i \in 1..Len(rows) : hit(rows[i]) /\ \A j \in 1..(i - 1) : ~hit(rows[j])

dayStrOf(log) == IsoDay(log.timestamp)
optimisticPeriodKey(log) == <<"daily", dayStrOf(log), 0>>

\* setStatsCache(prev => ...) of addOptimisticLog
addOptimisticStats(prev, challengeId, log) ==
    LET stats == GetOr(prev, challengeId, EMPTY_STATS)
        isScore(s) == s.user_id = log.userId
        isGoal(gs) == gs.user_id = log.userId /\ gs.goal_id = log.goalId
        isPc(pc) == pc.user_id = log.userId /\ pc.goal_id = log.goalId /\ pc.period_key = optimisticPeriodKey(log)
        isDp(dp) == dp.user_id = log.userId /\ dp.goal_id = log.goalId /\ dp.day = dayStrOf(log)
        addScore(s) == [s EXCEPT !.total_score = @ + log.pointsEarned]
        addGoal(gs) == [gs EXCEPT !.score = @ + log.pointsEarned]
        newScores == IF HasRow(stats.scores, isScore) THEN MapRows(stats.scores, isScore, addScore)
                     ELSE Append(stats.scores, [user_id |-> log.userId, total_score |-> log.pointsEarned])
        newGoalScores == IF HasRow(stats.goalScores, isGoal) THEN MapRows(stats.goalScores, isGoal, addGoal)
                         ELSE Append(stats.goalScores, [user_id |-> log.userId, goal_id |-> log.goalId, score |-> log.pointsEarned])
        newPeriodCounts == IF HasRow(stats.periodCounts, isPc)
                           THEN [stats.periodCounts EXCEPT ![FirstRow(stats.periodCounts, isPc)].count = @ + 1]
                           ELSE Append(stats.periodCounts, [user_id |-> log.userId, goal_id |-> log.goalId,
                                                            period_key |-> optimisticPeriodKey(log), count |-> 1])
        newDailyPoints == IF HasRow(stats.dailyPoints, isDp)
                          THEN [stats.dailyPoints EXCEPT ![FirstRow(stats.dailyPoints, isDp)].points = @ + log.pointsEarned]
                          ELSE Append(stats.dailyPoints, [user_id |-> log.userId, goal_id |-> log.goalId,
                                                          day |-> dayStrOf(log), points |-> log.pointsEarned])
    IN Put(prev, challengeId, [scores |-> newScores, goalScores |-> newGoalScores,
                               periodCounts |-> newPeriodCounts, dailyPoints |-> newDailyPoints])

\* variant: the points go to every participant of the challenge
addOptimisticChallenge_EveryParticipant(prev, challengeId, log) ==
    IF challengeId \notin DOMAIN prev THEN prev
    ELSE LET isUser(p) == TRUE
             addScore(p) == [p EXCEPT !.score = @ + log.pointsEarned]
         IN Put(prev, challengeId, [prev[challengeId] EXCEPT !.participants = MapRows(@, isUser, addScore)])

\* setChallengeCache(prev => ...) of addOptimisticLog
addOptimisticChallenge(prev, challengeId, log) ==
    IF challengeId \notin DOMAIN prev THEN prev
    ELSE LET isUser(p) == p.userId = log.userId
             addScore(p) == [p EXCEPT !.score = @ + log.pointsEarned]
         IN Put(prev, challengeId, [prev[challengeId] EXCEPT !.participants = MapRows(@, isUser, addScore)])

\* removeOptimisticLog that leaves the daily points as they are
removeOptimisticStats_KeepDaily(prev, challengeId, log) ==
    IF challengeId \notin DOMAIN prev THEN prev
    ELSE LET stats == prev[challengeId]
             isScore(s) == s.user_id = log.userId
             isGoal(gs) == gs.user_id = log.userId /\ gs.goal_id = log.goalId
             isPc(pc) == pc.user_id = log.userId /\ pc.goal_id = log.goalId /\ pc.period_key = optimisticPeriodKey(log)
             subScore(s) == [s EXCEPT !.total_score = @ - log.pointsEarned]
             subGoal(gs) == [gs EXCEPT !.score = @ - log.pointsEarned]
             subPc(pc) == [pc EXCEPT !.count = Max0(@ - 1)]
         IN Put(prev, challengeId, [scores |-> MapRows(stats.scores, isScore, subScore),
                                    goalScores |-> MapRows(stats.goalScores, isGoal, subGoal),
                                    periodCounts |-> MapRows(stats.periodCounts, isPc, subPc),
                                    dailyPoints |-> stats.dailyPoints])

\* setStatsCache(prev => ...) of removeOptimisticLog
removeOptimisticStats(prev, challengeId, log) ==
    IF challengeId \notin DOMAIN prev THEN prev
    ELSE LET stats == prev[challengeId]
             isScore(s) == s.user_id = log.userId
             isGoal(gs) == gs.user_id = log.userId /\ gs.goal_id = log.goalId
             isPc(pc) == pc.user_id = log.userId /\ pc.goal_id = log.goalId /\ pc.period_key = optimisticPeriodKey(log)
             isDp(dp) == dp.user_id = log.userId /\ dp.goal_id = log.goalId /\ dp.day = dayStrOf(log)
             subScore(s) == [s EXCEPT !.total_score = @ - log.pointsEarned]
             subGoal(gs) == [gs EXCEPT !.score = @ - log.pointsEarned]
             subPc(pc) == [pc EXCEPT !.count = Max0(@ - 1)]
             subDp(dp) == [dp EXCEPT !.points = @ - log.pointsEarned]
         IN Put(prev, challengeId, [scores |-> MapRows(stats.scores, isScore, subScore),
                                    goalScores |-> MapRows(stats.goalScores, isGoal, subGoal),
                                    periodCounts |-> MapRows(stats.periodCounts, isPc, subPc),
                                    dailyPoints |-> MapRows(stats.dailyPoints, isDp, subDp)])

\* setChallengeCache(prev => ...) of removeOptimisticLog
removeOptimisticChallenge(prev, challengeId, log) ==
    IF challengeId \notin DOMAIN prev THEN prev
    ELSE LET isUser(p) == p.userId = log.userId
             subScore(p) == [p EXCEPT !.score = @ - log.pointsEarned]
         IN Put(prev, challengeId, [prev[challengeId] EXCEPT !.participants = MapRows(@, isUser, subScore)])

\* ------------------------------------------------------------- state
VARIABLES
    now,                 \* Date.now()
    challenges,          \* Value(the challenge list), or Null
    challengeCache,      \* challenge id -> Challenge
    statsCache,          \* challenge id -> ChallengeStats
    hasLoaded,           \* hasLoadedRef
    isLoading,
    lastFetchAll,        \* lastFetchAllRef
    lastFetchDetail,     \* lastFetchDetailRef: challenge id -> time
    lastFetchStats,      \* lastFetchStatsRef: challenge id -> time
    inFlightAll,         \* inFlightAllRef: a promise, or NoPromise for null
    inFlightDetail,      \* inFlightDetailRef: challenge id -> promise
    inFlightStats,       \* inFlightStatsRef: challenge id -> promise
    reqs,                \* promise -> the read request it waits for
    goal_completions,    \* backend table: the completion rows
    srvVer,              \* number of writes the backend has applied
    challenge_participants,  \* backend table: the participant rows of the joinable challenges
    joinCalls,           \* running joinChallengeByCode calls, of this device and of others
    updateCalls,         \* updateChallenge calls, running and settled
    handlers,            \* running handleLogGoal / handleReduceGoal calls
    started,             \* number of handlers started so far
    processingGoalId,    \* goal id, or "" for null
    pendingCompletions,  \* pendingCompletionsRef: pending key -> count
    statsVer,            \* history: backend version of the snapshot in statsCache
    confirmedVer,        \* history: backend version of the last confirmed write per id
    last                 \* history: the latest call that returned to its caller, and what it returned

vars == <<now, challenges, challengeCache, statsCache, hasLoaded, isLoading, lastFetchAll,
          lastFetchDetail, lastFetchStats, inFlightAll, inFlightDetail, inFlightStats, reqs,
          goal_completions, srvVer, challenge_participants, joinCalls, updateCalls, handlers, started, processingGoalId, pendingCompletions,
          statsVer, confirmedVer, last>>

cacheVars == <<challenges, challengeCache, statsCache, hasLoaded, isLoading, lastFetchAll,
               lastFetchDetail, lastFetchStats>>
inFlightVars == <<inFlightAll, inFlightDetail, inFlightStats>>
pageVars == <<handlers, started, processingGoalId, pendingCompletions>>
joinVars == <<challenge_participants, joinCalls>>
editVars == <<updateCalls>>
serverVars == <<goal_completions, srvVer, joinVars, editVars>>

Null == [kind |-> "null"]
Undefined == [kind |-> "undefined"]
NoData == [kind |-> "pending"]
EmptyMap == [x \in {} |-> 0]
NoPromise == <<"", "", 0>>

Init ==
    /\ now = StartNow
    /\ challenges = Null
    /\ challengeCache = EmptyMap
    /\ statsCache = EmptyMap
    /\ hasLoaded = FALSE
    /\ isLoading = FALSE
    /\ lastFetchAll = 0
    /\ lastFetchDetail = EmptyMap
    /\ lastFetchStats = EmptyMap
    /\ inFlightAll = NoPromise
    /\ inFlightDetail = EmptyMap
    /\ inFlightStats = EmptyMap
    /\ reqs = EmptyMap
    /\ goal_completions = {}
    /\ srvVer = 0
    /\ challenge_participants = {[n |-> 0, challenge_id |-> "c2", user_id |-> "u3", role |-> "owner"]}
    /\ joinCalls = {}
    /\ updateCalls = {}
    /\ handlers = {}
    /\ started = 0
    /\ processingGoalId = ""
    /\ pendingCompletions = EmptyMap
    /\ statsVer = EmptyMap
    /\ confirmedVer = EmptyMap
    /\ last = [op |-> "init", id |-> "", ret |-> Null, net |-> 0]

\* ------------------------------------------------------ read requests
\* A read request is [op, id, st, ok, data, ver]: st is "sent" until the
\* backend has answered, then "replied" with the answer in ok/data.
\* A promise is named <<op, id, n>>: the n-th outstanding request of op for id.
Ops == {"refreshChallenges", "fetchChallengeDetail", "fetchStats", "getChallenge", "getStats"}
NewPromiseOf(R, op, id) == <<op, id, CHOOSE n \in 1..(Cardinality(DOMAIN R) + 1) :
                                        /\ <<op, id, n>> \notin DOMAIN R
                                        /\ \A m \in 1..(n - 1) : <<op, id, m>> \in DOMAIN R>>
\* the accessors' own awaited reads are capped, the deduplicated fetches are not
Awaited(R) == {p \in DOMAIN R : p[1] \in {"getChallenge", "getStats"}}
CanAwait(R) == Cardinality(Awaited(R)) < MaxCallers
NewRequest(op, id) == [op |-> op, id |-> id, st |-> "sent", ok |-> TRUE, data |-> NoData, ver |-> 0]
Promise(p) == [kind |-> "promise", p |-> p]
Resolved == [kind |-> "resolved"]
Value(v) == [kind |-> "value", v |-> v]
\* net is the number of network reads the call has started before returning
Returned(op, id, ret, net) == last' = [op |-> op, id |-> id, ret |-> ret, net |-> net]
NetCalls(R) == Cardinality(DOMAIN R \ DOMAIN reqs)

\* Date.now() - t < CACHE_TTL_MS
IsFresh(t) == now - t < CACHE_TTL_MS

\* ---- refreshChallenges(force): lines 449-458, 507-508
refreshChallengesCall(force) ==
    /\ user # ""
    /\ IF ~force /\ IsFresh(lastFetchAll)
       THEN /\ Returned("refreshChallenges", "all", Resolved, 0)
            /\ UNCHANGED <<isLoading, inFlightAll, reqs>>
       ELSE IF inFlightAll # NoPromise
       THEN /\ Returned("refreshChallenges", "all", Promise(inFlightAll), 0)
            /\ UNCHANGED <<isLoading, inFlightAll, reqs>>
       ELSE /\ isLoading' = IF ~hasLoaded THEN TRUE ELSE isLoading
            /\ reqs' = Put(reqs, NewPromiseOf(reqs, "refreshChallenges", "all"), NewRequest("refreshChallenges", "all"))
            /\ inFlightAll' = NewPromiseOf(reqs, "refreshChallenges", "all")
            /\ Returned("refreshChallenges", "all", Promise(NewPromiseOf(reqs, "refreshChallenges", "all")), 1)

refreshChallenges(force) ==
    /\ refreshChallengesCall(force)
    /\ UNCHANGED <<now, challenges, challengeCache, statsCache, hasLoaded, lastFetchAll,
                   lastFetchDetail, lastFetchStats, inFlightDetail, inFlightStats,
                   serverVars, pageVars, statsVer, confirmedVer>>

\* ---- the body of fetchChallengeDetail(id) up to its return: lines 511-516, 556-557
\* lf, infl and R are lastFetchDetailRef, inFlightDetailRef and the requests when it is called
fetchChallengeDetailReturn(id, lf, infl, R) ==
    IF IsFresh(GetOr(lf, id, 0)) THEN Resolved
    ELSE IF id \in DOMAIN infl THEN Promise(infl[id])
    ELSE Promise(NewPromiseOf(R, "fetchChallengeDetail", id))

fetchChallengeDetailStart(id, lf, infl, R) ==
    IF IsFresh(GetOr(lf, id, 0)) \/ id \in DOMAIN infl
    THEN <<R, infl>>
    ELSE <<Put(R, NewPromiseOf(R, "fetchChallengeDetail", id), NewRequest("fetchChallengeDetail", id)),
          Put(infl, id, NewPromiseOf(R, "fetchChallengeDetail", id))>>

fetchChallengeDetail(id) ==
    /\ reqs' = fetchChallengeDetailStart(id, lastFetchDetail, inFlightDetail, reqs)[1]
    /\ inFlightDetail' = fetchChallengeDetailStart(id, lastFetchDetail, inFlightDetail, reqs)[2]
    /\ Returned("fetchChallengeDetail", id, fetchChallengeDetailReturn(id, lastFetchDetail, inFlightDetail, reqs),
                NetCalls(fetchChallengeDetailStart(id, lastFetchDetail, inFlightDetail, reqs)[1]))
    /\ UNCHANGED <<now, cacheVars, inFlightAll, inFlightStats, serverVars, pageVars, statsVer, confirmedVer>>

\* ---- the body of fetchStats(id) up to its return: lines 560-565, 599-600
fetchStatsReturn(id, lf, infl, R) ==
    IF IsFresh(GetOr(lf, id, 0)) THEN Resolved
    ELSE IF id \in DOMAIN infl THEN Promise(infl[id])
    ELSE Promise(NewPromiseOf(R, "fetchStats", id))

\* fetchStats without the in-flight check of line 565
fetchStatsStart_NoDedup(id, lf, infl, R) ==
    IF IsFresh(GetOr(lf, id, 0))
    THEN <<R, infl>>
    ELSE <<Put(R, NewPromiseOf(R, "fetchStats", id), NewRequest("fetchStats", id)),
          Put(infl, id, NewPromiseOf(R, "fetchStats", id))>>

fetchStatsStart(id, lf, infl, R) ==
    IF IsFresh(GetOr(lf, id, 0)) \/ id \in DOMAIN infl
    THEN <<R, infl>>
    ELSE <<Put(R, NewPromiseOf(R, "fetchStats", id), NewRequest("fetchStats", id)),
          Put(infl, id, NewPromiseOf(R, "fetchStats", id))>>

fetchStats(id) ==
    /\ reqs' = fetchStatsStart(id, lastFetchStats, inFlightStats, reqs)[1]
    /\ inFlightStats' = fetchStatsStart(id, lastFetchStats, inFlightStats, reqs)[2]
    /\ Returned("fetchStats", id, fetchStatsReturn(id, lastFetchStats, inFlightStats, reqs),
                NetCalls(fetchStatsStart(id, lastFetchStats, inFlightStats, reqs)[1]))
    /\ UNCHANGED <<now, cacheVars, inFlightAll, inFlightDetail, serverVars, pageVars, statsVer, confirmedVer>>

\* getChallenge that refreshes only when the age is strictly above the window
getChallenge_StrictTtl(id) ==
    /\ IF id \in DOMAIN challengeCache
       THEN /\ IF now - GetOr(lastFetchDetail, id, 0) > CACHE_TTL_MS
               THEN /\ reqs' = fetchChallengeDetailStart(id, lastFetchDetail, inFlightDetail, reqs)[1]
                    /\ inFlightDetail' = fetchChallengeDetailStart(id, lastFetchDetail, inFlightDetail, reqs)[2]
               ELSE UNCHANGED <<reqs, inFlightDetail>>
            /\ Returned("getChallenge", id, Value(challengeCache[id]),
                        IF now - GetOr(lastFetchDetail, id, 0) > CACHE_TTL_MS
                        THEN NetCalls(fetchChallengeDetailStart(id, lastFetchDetail, inFlightDetail, reqs)[1]) ELSE 0)
       ELSE /\ CanAwait(reqs)
            /\ reqs' = Put(reqs, NewPromiseOf(reqs, "getChallenge", id), NewRequest("getChallenge", id))
            /\ UNCHANGED inFlightDetail
            /\ Returned("getChallenge", id, Promise(NewPromiseOf(reqs, "getChallenge", id)), 1)
    /\ UNCHANGED <<now, cacheVars, inFlightAll, inFlightStats, serverVars, pageVars, statsVer, confirmedVer>>

\* ---- getChallenge(id) up to its first await: lines 749-762
getChallenge(id) ==
    /\ IF id \in DOMAIN challengeCache
       THEN /\ IF now - GetOr(lastFetchDetail, id, 0) >= CACHE_TTL_MS
               THEN /\ reqs' = fetchChallengeDetailStart(id, lastFetchDetail, inFlightDetail, reqs)[1]
                    /\ inFlightDetail' = fetchChallengeDetailStart(id, lastFetchDetail, inFlightDetail, reqs)[2]
               ELSE UNCHANGED <<reqs, inFlightDetail>>
            /\ Returned("getChallenge", id, Value(challengeCache[id]),
                        IF now - GetOr(lastFetchDetail, id, 0) >= CACHE_TTL_MS
                        THEN NetCalls(fetchChallengeDetailStart(id, lastFetchDetail, inFlightDetail, reqs)[1]) ELSE 0)
       ELSE /\ CanAwait(reqs)
            /\ reqs' = Put(reqs, NewPromiseOf(reqs, "getChallenge", id), NewRequest("getChallenge", id))
            /\ UNCHANGED inFlightDetail
            /\ Returned("getChallenge", id, Promise(NewPromiseOf(reqs, "getChallenge", id)), 1)
    /\ UNCHANGED <<now, cacheVars, inFlightAll, inFlightStats, serverVars, pageVars, statsVer, confirmedVer>>

\* ---- getStats(id) up to its first await: lines 770-782
getStats(id) ==
    /\ IF id \in DOMAIN statsCache
       THEN /\ IF now - GetOr(lastFetchStats, id, 0) >= CACHE_TTL_MS
               THEN /\ reqs' = fetchStatsStart(id, lastFetchStats, inFlightStats, reqs)[1]
                    /\ inFlightStats' = fetchStatsStart(id, lastFetchStats, inFlightStats, reqs)[2]
               ELSE UNCHANGED <<reqs, inFlightStats>>
            /\ Returned("getStats", id, Value(statsCache[id]),
                        IF now - GetOr(lastFetchStats, id, 0) >= CACHE_TTL_MS
                        THEN NetCalls(fetchStatsStart(id, lastFetchStats, inFlightStats, reqs)[1]) ELSE 0)
       ELSE /\ CanAwait(reqs)
            /\ reqs' = Put(reqs, NewPromiseOf(reqs, "getStats", id), NewRequest("getStats", id))
            /\ UNCHANGED inFlightStats
            /\ Returned("getStats", id, Promise(NewPromiseOf(reqs, "getStats", id)), 1)
    /\ UNCHANGED <<now, cacheVars, inFlightAll, inFlightDetail, serverVars, pageVars, statsVer, confirmedVer>>

\* ---- the backend answers a read request
ReplyData(r, ok) ==
    IF r.op = "refreshChallenges" THEN (IF ok THEN Value(getAllChallenges(challenge_participants, user)) ELSE NoData)
    ELSE IF r.op \in {"fetchChallengeDetail", "getChallenge"}
         THEN (IF ok THEN Value(getChallengeById(r.id)) ELSE Undefined)
    ELSE (IF ok THEN Value(get_challenge_stats(goal_completions, r.id)) ELSE NoData)

\* getChallengeById logs an error and returns undefined; the other two throw
ReplyOk(r, ok) == IF r.op \in {"fetchChallengeDetail", "getChallenge"} THEN TRUE ELSE ok

ServerReply(p, ok) ==
    /\ p \in DOMAIN reqs
    /\ reqs[p].st = "sent"
    /\ reqs' = [reqs EXCEPT ![p] = [reqs[p] EXCEPT !.st = "replied", !.ok = ReplyOk(reqs[p], ok),
                                                     !.data = ReplyData(reqs[p], ok), !.ver = srvVer]]
    /\ UNCHANGED <<now, cacheVars, inFlightVars, serverVars, pageVars, statsVer, confirmedVer, last>>

Replied(p, op) == p \in DOMAIN reqs /\ reqs[p].st = "replied" /\ reqs[p].op = op

\* a failed read ends in console.error (lines 500, 593; part_005 line 274) and the
\* operation resolves all the same
Failed(op, id) == last' = [op |-> op \o ".failed", id |-> id, ret |-> Resolved, net |-> 0]

\* variant: the in-flight marker is cleared at the end of the try block only
refreshChallengesDone_ClearOnSuccess(p) ==
    /\ Replied(p, "refreshChallenges")
    /\ IF reqs[p].ok
       THEN /\ challenges' = Value(reqs[p].data.v)
            /\ hasLoaded' = TRUE
            /\ lastFetchAll' = now
            /\ challengeCache' = mergeList(challengeCache, challengeCache, reqs[p].data.v)
            /\ inFlightAll' = NoPromise
            /\ UNCHANGED last
       ELSE /\ Failed("refreshChallenges", "all")
            /\ UNCHANGED <<challenges, hasLoaded, lastFetchAll, challengeCache, inFlightAll>>
    /\ isLoading' = FALSE
    /\ reqs' = Delete(reqs, p)
    /\ UNCHANGED <<now, statsCache, lastFetchDetail, lastFetchStats, inFlightDetail, inFlightStats,
                   serverVars, pageVars, statsVer, confirmedVer>>

\* ---- refreshChallenges after its await: lines 462-504
refreshChallengesDone(p) ==
    /\ Replied(p, "refreshChallenges")
    /\ IF reqs[p].ok
       THEN /\ challenges' = Value(reqs[p].data.v)
            /\ hasLoaded' = TRUE
            /\ lastFetchAll' = now
            /\ challengeCache' = mergeList(challengeCache, challengeCache, reqs[p].data.v)
            /\ UNCHANGED last
       ELSE /\ Failed("refreshChallenges", "all")
            /\ UNCHANGED <<challenges, hasLoaded, lastFetchAll, challengeCache>>
    /\ isLoading' = FALSE
    /\ inFlightAll' = NoPromise
    /\ reqs' = Delete(reqs, p)
    /\ UNCHANGED <<now, statsCache, lastFetchDetail, lastFetchStats, inFlightDetail, inFlightStats,
                   serverVars, pageVars, statsVer, confirmedVer>>

\* variant: the catch block rethrows
fetchChallengeDetailDone_Rethrow(p) ==
    /\ Replied(p, "fetchChallengeDetail")
    /\ LET id == reqs[p].id
           latest == reqs[p].data
       IN /\ IF latest # Undefined
             THEN /\ challengeCache' = mergeDetail(challengeCache, id, latest.v)
                  /\ lastFetchDetail' = Put(lastFetchDetail, id, now)
                  /\ UNCHANGED last
             ELSE /\ last' = [op |-> "fetchChallengeDetail.failed", id |-> id, ret |-> [kind |-> "thrown"], net |-> 0]
                  /\ UNCHANGED <<challengeCache, lastFetchDetail>>
          /\ inFlightDetail' = Delete(inFlightDetail, id)
    /\ reqs' = Delete(reqs, p)
    /\ UNCHANGED <<now, challenges, statsCache, hasLoaded, isLoading, lastFetchAll, lastFetchStats,
                   inFlightAll, inFlightStats, serverVars, pageVars, statsVer, confirmedVer>>

\* ---- fetchChallengeDetail after its await: lines 520-553
fetchChallengeDetailDone(p) ==
    /\ Replied(p, "fetchChallengeDetail")
    /\ LET id == reqs[p].id
           latest == reqs[p].data
       IN /\ IF latest # Undefined
             THEN /\ challengeCache' = mergeDetail(challengeCache, id, latest.v)
                  /\ lastFetchDetail' = Put(lastFetchDetail, id, now)
                  /\ UNCHANGED last
             ELSE /\ Failed("fetchChallengeDetail", id)
                  /\ UNCHANGED <<challengeCache, lastFetchDetail>>
          /\ inFlightDetail' = Delete(inFlightDetail, id)
    /\ reqs' = Delete(reqs, p)
    /\ UNCHANGED <<now, challenges, statsCache, hasLoaded, isLoading, lastFetchAll, lastFetchStats,
                   inFlightAll, inFlightStats, serverVars, pageVars, statsVer, confirmedVer>>

\* variant: the freshness timestamp is written in the finally block
fetchStatsDone_StampAlways(p) ==
    /\ Replied(p, "fetchStats")
    /\ LET id == reqs[p].id
       IN /\ IF reqs[p].ok
             THEN /\ statsCache' = Put(statsCache, id, reqs[p].data.v)
                  /\ challengeCache' = applyStatsToParticipants(challengeCache, id, reqs[p].data.v)
                  /\ statsVer' = Put(statsVer, id, reqs[p].ver)
                  /\ UNCHANGED last
             ELSE /\ Failed("fetchStats", id)
                  /\ UNCHANGED <<statsCache, challengeCache, statsVer>>
          /\ lastFetchStats' = Put(lastFetchStats, id, now)
          /\ inFlightStats' = Delete(inFlightStats, id)
    /\ reqs' = Delete(reqs, p)
    /\ UNCHANGED <<now, challenges, hasLoaded, isLoading, lastFetchAll, lastFetchDetail,
                   inFlightAll, inFlightDetail, serverVars, pageVars, confirmedVer>>

\* ---- fetchStats after its await: lines 569-596
fetchStatsDone(p) ==
    /\ Replied(p, "fetchStats")
    /\ LET id == reqs[p].id
       IN /\ IF reqs[p].ok
             THEN /\ statsCache' = Put(statsCache, id, reqs[p].data.v)
                  /\ lastFetchStats' = Put(lastFetchStats, id, now)
                  /\ challengeCache' = applyStatsToParticipants(challengeCache, id, reqs[p].data.v)
                  /\ statsVer' = Put(statsVer, id, reqs[p].ver)
                  /\ UNCHANGED last
             ELSE /\ Failed("fetchStats", id)
                  /\ UNCHANGED <<statsCache, lastFetchStats, challengeCache, statsVer>>
          /\ inFlightStats' = Delete(inFlightStats, id)
    /\ reqs' = Delete(reqs, p)
    /\ UNCHANGED <<now, challenges, hasLoaded, isLoading, lastFetchAll, lastFetchDetail,
                   inFlightAll, inFlightDetail, serverVars, pageVars, confirmedVer>>

\* ---- getChallenge after its await: lines 762-767
getChallengeDone(p) ==
    /\ Replied(p, "getChallenge")
    /\ LET id == reqs[p].id
           latest == reqs[p].data
       IN /\ IF latest # Undefined
             THEN /\ challengeCache' = Put(challengeCache, id, latest.v)
                  /\ lastFetchDetail' = Put(lastFetchDetail, id, now)
             ELSE UNCHANGED <<challengeCache, lastFetchDetail>>
          /\ Returned("getChallenge.done", id, latest, 0)
    /\ reqs' = Delete(reqs, p)
    /\ UNCHANGED <<now, challenges, statsCache, hasLoaded, isLoading, lastFetchAll, lastFetchStats,
                   inFlightVars, serverVars, pageVars, statsVer, confirmedVer>>

\* getStats that forgets to stamp the freshness of what it has fetched
getStatsDone_NoStamp(p) ==
    /\ Replied(p, "getStats")
    /\ LET id == reqs[p].id
       IN /\ IF reqs[p].ok
             THEN /\ statsCache' = Put(statsCache, id, reqs[p].data.v)
                  /\ statsVer' = Put(statsVer, id, reqs[p].ver)
             ELSE UNCHANGED <<statsCache, statsVer>>
          /\ Returned("getStats.done", id, IF reqs[p].ok THEN reqs[p].data ELSE [kind |-> "thrown"], 0)
    /\ reqs' = Delete(reqs, p)
    /\ UNCHANGED <<now, challenges, challengeCache, hasLoaded, isLoading, lastFetchAll, lastFetchDetail,
                   lastFetchStats, inFlightVars, serverVars, pageVars, confirmedVer>>

\* ---- getStats after its await: lines 782-785
getStatsDone(p) ==
    /\ Replied(p, "getStats")
    /\ LET id == reqs[p].id
       IN /\ IF reqs[p].ok
             THEN /\ statsCache' = Put(statsCache, id, reqs[p].data.v)
                  /\ lastFetchStats' = Put(lastFetchStats, id, now)
                  /\ statsVer' = Put(statsVer, id, reqs[p].ver)
             ELSE UNCHANGED <<statsCache, lastFetchStats, statsVer>>
          /\ Returned("getStats.done", id, IF reqs[p].ok THEN reqs[p].data ELSE [kind |-> "thrown"], 0)
    /\ reqs' = Delete(reqs, p)
    /\ UNCHANGED <<now, challenges, challengeCache, hasLoaded, isLoading, lastFetchAll, lastFetchDetail,
                   inFlightVars, serverVars, pageVars, confirmedVer>>

\* invalidateChallenge that resets the detail timestamp only
invalidateChallenge_DetailOnly(id) ==
    /\ lastFetchDetail' = Put(lastFetchDetail, id, 0)
    /\ UNCHANGED <<now, challenges, challengeCache, statsCache, hasLoaded, isLoading, lastFetchAll,
                   lastFetchStats, inFlightVars, reqs, serverVars, pageVars, statsVer, confirmedVer, last>>

\* ---- invalidateChallenge(id): lines 607-610
invalidateChallenge(id) ==
    /\ lastFetchDetail' = Put(lastFetchDetail, id, 0)
    /\ lastFetchStats' = Put(lastFetchStats, id, 0)
    /\ UNCHANGED <<now, challenges, challengeCache, statsCache, hasLoaded, isLoading, lastFetchAll,
                   inFlightVars, reqs, serverVars, pageVars, statsVer, confirmedVer, last>>

\* ---- clearCache(): lines 788-796
clearCache ==
    /\ challenges' = Null
    /\ challengeCache' = EmptyMap
    /\ statsCache' = EmptyMap
    /\ hasLoaded' = FALSE
    /\ lastFetchAll' = 0
    /\ lastFetchDetail' = EmptyMap
    /\ lastFetchStats' = EmptyMap
    /\ statsVer' = EmptyMap
    /\ Returned("clearCache", "all", Resolved, 0)
    /\ UNCHANGED <<now, isLoading, inFlightVars, reqs, serverVars, pageVars, confirmedVer>>

\* ---- the clock
Tick ==
    /\ now < StartNow + MaxTicks * TickMs
    /\ now' = now + TickMs
    /\ UNCHANGED <<cacheVars, inFlightVars, reqs, serverVars, pageVars, statsVer, confirmedVer, last>>

\* ------------------------------------------------- the challenge page
selectedDate == startOfDay(SelectedDay)

\* userPeriodCounts.countByGoalId[goalId] || 0 : Profile.tsx lines 812-824
RECURSIVE SumCounts(_)
SumCounts(rows) == IF rows = <<>> THEN 0 ELSE Head(rows).count + SumCounts(Tail(rows))

pageStats(id) == GetOr(statsCache, id, EMPTY_STATS)

\* the loop of lines 818-823 over the period counts of `stats`, the expected
\* period key of a goal being goalMeta.periodKeyByGoalId (lines 797-808)
periodCountOf(stats, goals, goal) ==
    LET inGoals(pc) == \E i \in 1..Len(goals) :
                          /\ goals[i].id = pc.goal_id
                          /\ pc.period_key = getPeriodKey(goals[i].frequency, selectedDate)
        hit(pc) == pc.user_id = user /\ pc.goal_id = goal.id /\ inGoals(pc)
    IN SumCounts(SelectSeq(stats.periodCounts, hit))

countByGoalId(id, goal) ==
    IF id \notin DOMAIN challengeCache THEN 0
    ELSE periodCountOf(pageStats(id), challengeCache[id].goals, goal)

pendingKeyOf(goal) == <<goal.id, user, getPeriodKey(goal.frequency, selectedDate)>>
maxAllowedOf(goal) == IF goal.maxCompletions = 0 THEN 1 ELSE goal.maxCompletions

optimisticLogOf(id, goal) ==
    [id |-> 0, challengeId |-> id, goalId |-> goal.id, userId |-> user,
     timestamp |-> selectedDate, pointsEarned |-> goal.points]

\* ---- handleLogGoal(goal) up to its await: Profile.tsx lines 640-689
handleLogGoal(id, goal) ==
    /\ started < MaxWrites
    /\ processingGoalId = ""
    /\ id \in DOMAIN challengeCache
    /\ \E i \in 1..Len(challengeCache[id].goals) : challengeCache[id].goals[i] = goal
    /\ countByGoalId(id, goal) + GetOr(pendingCompletions, pendingKeyOf(goal), 0) < maxAllowedOf(goal)
    /\ pendingCompletions' = Put(pendingCompletions, pendingKeyOf(goal),
                                 GetOr(pendingCompletions, pendingKeyOf(goal), 0) + 1)
    /\ statsCache' = addOptimisticStats(statsCache, id, optimisticLogOf(id, goal))
    /\ challengeCache' = addOptimisticChallenge(challengeCache, id, optimisticLogOf(id, goal))
    /\ started' = started + 1
    /\ handlers' = handlers \cup {[h |-> started + 1, kind |-> "log", pc |-> "logGoalCompletion", id |-> id,
                                    goal |-> goal, log |-> optimisticLogOf(id, goal), ver |-> 0, err |-> ""]}
    /\ Returned("handleLogGoal", id, Value(optimisticLogOf(id, goal)), 0)
    /\ UNCHANGED <<now, challenges, hasLoaded, isLoading, lastFetchAll, lastFetchDetail, lastFetchStats,
                   inFlightVars, reqs, serverVars, processingGoalId, statsVer, confirmedVer>>

\* ---- logGoalCompletion in the backend: part_005 lines 557-599
\* first the goal row and the count of the period, then the insert
countCompletions(goalId, userId, periodKey) ==
    Cardinality({r \in goal_completions : r.goal_id = goalId /\ r.user_id = userId /\ r.period_key = periodKey})

maxCompletionsOf(id, goalId) ==
    LET rows == {i \in 1..Len(SrvGoals(id)) : SrvGoals(id)[i].id = goalId}
    IN SrvGoals(id)[CHOOSE i \in rows : TRUE].maxCompletions

\* ok: the goal row is read; countOk: the count query answers.  A count query
\* that fails is only logged: count is null and the limit test is skipped.
logGoalCompletionCheck(h, ok, countOk) ==
    /\ h \in handlers
    /\ h.kind \in {"log", "remote"} /\ h.pc = "logGoalCompletion"
    /\ LET periodKey == getPeriodKey(h.goal.frequency, h.log.timestamp)
           count == countCompletions(h.goal.id, h.log.userId, periodKey)
           error == IF ~ok THEN "Goal not found"
                    ELSE IF countOk /\ count >= maxCompletionsOf(h.id, h.goal.id) THEN "limit reached"
                    ELSE ""
       IN handlers' = (handlers \ {h}) \cup
             {[h EXCEPT !.pc = IF error = "" THEN "insert" ELSE "failed", !.err = error]}
    /\ UNCHANGED <<now, cacheVars, inFlightVars, reqs, serverVars, started, processingGoalId,
                   pendingCompletions, statsVer, confirmedVer, last>>

newRow(ver, challengeId, goalId, userId, points, frequency, date) ==
    [id |-> ver, challenge_id |-> challengeId, goal_id |-> goalId, user_id |-> userId,
     points_at_time |-> points, period_key |-> getPeriodKey(frequency, date), completion_at |-> date]

logGoalCompletionInsert(h, ok) ==
    /\ h \in handlers
    /\ h.kind \in {"log", "remote"} /\ h.pc = "insert"
    /\ IF ok
       THEN /\ srvVer < MaxLogs
            /\ srvVer' = srvVer + 1
            /\ goal_completions' = goal_completions \cup
                   {newRow(srvVer + 1, h.id, h.goal.id, h.log.userId, h.goal.points, h.goal.frequency, h.log.timestamp)}
            /\ handlers' = (handlers \ {h}) \cup {[h EXCEPT !.pc = "ok", !.ver = srvVer + 1]}
       ELSE /\ handlers' = (handlers \ {h}) \cup {[h EXCEPT !.pc = "failed", !.err = "insert failed"]}
            /\ UNCHANGED serverVars
    /\ UNCHANGED <<now, cacheVars, inFlightVars, reqs, joinVars, editVars, started, processingGoalId,
                   pendingCompletions, statsVer, confirmedVer, last>>

\* invalidateChallenge(id); fetchChallengeDetail(id); fetchStats(id) in one synchronous run
refreshAfterWrite(id) ==
    LET lfd == Put(lastFetchDetail, id, 0)
        lfs == Put(lastFetchStats, id, 0)
        afterDetail == fetchChallengeDetailStart(id, lfd, inFlightDetail, reqs)
        afterStats == fetchStatsStart(id, lfs, inFlightStats, afterDetail[1])
    IN /\ lastFetchDetail' = lfd
       /\ lastFetchStats' = lfs
       /\ inFlightDetail' = afterDetail[2]
       /\ inFlightStats' = afterStats[2]
       /\ reqs' = afterStats[1]

donePending(key) == Put(pendingCompletions, key, Max0((IF GetOr(pendingCompletions, key, 0) = 0 THEN 1
                                                        ELSE pendingCompletions[key]) - 1))

\* handleLogGoal whose catch also invalidates and refetches
handleLogGoalDone_RefetchInCatch(h) ==
    /\ h \in handlers
    /\ h.kind = "log" /\ h.pc \in {"ok", "failed"}
    /\ refreshAfterWrite(h.id)
    /\ IF h.pc = "ok"
       THEN /\ confirmedVer' = Put(confirmedVer, h.id, h.ver)
            /\ Returned("handleLogGoal.done", h.id, Resolved, 0)
            /\ UNCHANGED <<statsCache, challengeCache>>
       ELSE /\ statsCache' = removeOptimisticStats(statsCache, h.id, h.log)
            /\ challengeCache' = removeOptimisticChallenge(challengeCache, h.id, h.log)
            /\ Returned("handleLogGoal.catch", h.id, [kind |-> "toast.error", log |-> h.log, message |-> h.err], 0)
            /\ UNCHANGED confirmedVer
    /\ pendingCompletions' = donePending(pendingKeyOf(h.goal))
    /\ handlers' = handlers \ {h}
    /\ UNCHANGED <<now, challenges, hasLoaded, isLoading, lastFetchAll, inFlightAll, serverVars,
                   started, processingGoalId, statsVer>>

\* ---- handleLogGoal after its await: Profile.tsx lines 689-701
handleLogGoalDone(h) ==
    /\ h \in handlers
    /\ h.kind = "log" /\ h.pc \in {"ok", "failed"}
    /\ IF h.pc = "ok"
       THEN /\ refreshAfterWrite(h.id)
            /\ confirmedVer' = Put(confirmedVer, h.id, h.ver)
            /\ Returned("handleLogGoal.done", h.id, Resolved, 0)
            /\ UNCHANGED <<statsCache, challengeCache>>
       ELSE /\ statsCache' = removeOptimisticStats(statsCache, h.id, h.log)
            /\ challengeCache' = removeOptimisticChallenge(challengeCache, h.id, h.log)
            /\ Returned("handleLogGoal.catch", h.id, [kind |-> "toast.error", log |-> h.log, message |-> h.err], 0)
            /\ UNCHANGED <<lastFetchDetail, lastFetchStats, inFlightDetail, inFlightStats, reqs, confirmedVer>>
    /\ pendingCompletions' = donePending(pendingKeyOf(h.goal))
    /\ handlers' = handlers \ {h}
    /\ UNCHANGED <<now, challenges, hasLoaded, isLoading, lastFetchAll, inFlightAll, serverVars,
                   started, processingGoalId, statsVer>>

\* ---- handleReduceGoal(goalId) up to its first await: Profile.tsx lines 704-719
currentCountOf(id, goalId, periodKey) ==
    LET rows == pageStats(id).periodCounts
        hit(pc) == pc.goal_id = goalId /\ pc.user_id = user /\ pc.period_key = periodKey
    IN IF HasRow(rows, hit) THEN rows[FirstRow(rows, hit)].count ELSE 0

handleReduceGoal(id, goalId) ==
    /\ started < MaxWrites
    /\ processingGoalId = ""
    /\ id \in DOMAIN challengeCache
    /\ \E i \in 1..Len(challengeCache[id].goals) :
          LET currentGoal == challengeCache[id].goals[i]
          IN /\ currentGoal.id = goalId
             /\ \A j \in 1..(i - 1) : challengeCache[id].goals[j].id # goalId
             /\ currentCountOf(id, goalId, getPeriodKey(currentGoal.frequency, selectedDate)) # 0
             /\ handlers' = handlers \cup {[h |-> started + 1, kind |-> "reduce", pc |-> "getLastLog", id |-> id,
                                             goal |-> currentGoal, log |-> Null, ver |-> 0, err |-> ""]}
    /\ processingGoalId' = goalId
    /\ started' = started + 1
    /\ Returned("handleReduceGoal", id, Resolved, 0)
    /\ UNCHANGED <<now, cacheVars, inFlightVars, reqs, serverVars, pendingCompletions, statsVer, confirmedVer>>

\* ---- getLastLog in the backend: the most recent row of (goal, user, period key), or none
toCompletionLog(r) ==
    [id |-> r.id, challengeId |-> r.challenge_id, goalId |-> r.goal_id, userId |-> r.user_id,
     timestamp |-> r.completion_at, pointsEarned |-> r.points_at_time]

getLastLog(goalId, userId, periodKey) ==
    LET rows == {r \in goal_completions : r.goal_id = goalId /\ r.user_id = userId /\ r.period_key = periodKey}
    IN IF rows = {} THEN Null
       ELSE toCompletionLog(CHOOSE r \in rows : \A q \in rows :
                               q.completion_at < r.completion_at \/ (q.completion_at = r.completion_at /\ q.id <= r.id))

getLastLogReply(h, ok) ==
    /\ h \in handlers
    /\ h.kind = "reduce" /\ h.pc = "getLastLog"
    /\ handlers' = (handlers \ {h}) \cup
          {IF ok THEN [h EXCEPT !.pc = "gotLastLog",
                                !.log = getLastLog(h.goal.id, user, getPeriodKey(h.goal.frequency, selectedDate))]
                 ELSE [h EXCEPT !.pc = "failed"]}
    /\ UNCHANGED <<now, cacheVars, inFlightVars, reqs, serverVars, started, processingGoalId,
                   pendingCompletions, statsVer, confirmedVer, last>>

\* ---- handleReduceGoal between its two awaits: Profile.tsx lines 719-732
handleReduceGoalFound(h) ==
    /\ h \in handlers
    /\ h.kind = "reduce" /\ h.pc = "gotLastLog"
    /\ processingGoalId' = ""
    /\ IF h.log = Null
       THEN /\ handlers' = handlers \ {h}
            /\ Returned("handleReduceGoal.none", h.id, Resolved, 0)
            /\ UNCHANGED <<statsCache, challengeCache>>
       ELSE /\ statsCache' = removeOptimisticStats(statsCache, h.id, h.log)
            /\ challengeCache' = removeOptimisticChallenge(challengeCache, h.id, h.log)
            /\ handlers' = (handlers \ {h}) \cup {[h EXCEPT !.pc = "deleteLog"]}
            /\ Returned("handleReduceGoal.removed", h.id, Value(h.log), 0)
    /\ UNCHANGED <<now, challenges, hasLoaded, isLoading, lastFetchAll, lastFetchDetail, lastFetchStats,
                   inFlightVars, reqs, serverVars, started, pendingCompletions, statsVer, confirmedVer>>

\* ---- deleteLog in the backend: part_005 lines 601-608
deleteLog(h, ok) ==
    /\ h \in handlers
    /\ h.kind = "reduce" /\ h.pc = "deleteLog"
    /\ IF ok
       THEN /\ srvVer < MaxLogs
            /\ srvVer' = srvVer + 1
            /\ goal_completions' = {r \in goal_completions : r.id # h.log.id}
            /\ handlers' = (handlers \ {h}) \cup {[h EXCEPT !.pc = "ok", !.ver = srvVer + 1]}
       ELSE /\ handlers' = (handlers \ {h}) \cup {[h EXCEPT !.pc = "deleteFailed"]}
            /\ UNCHANGED serverVars
    /\ UNCHANGED <<now, cacheVars, inFlightVars, reqs, joinVars, editVars, started, processingGoalId,
                   pendingCompletions, statsVer, confirmedVer, last>>

\* ---- handleReduceGoal after its last await, or in its catch: Profile.tsx lines 732-741
handleReduceGoalDone(h) ==
    /\ h \in handlers
    /\ h.kind = "reduce" /\ h.pc \in {"ok", "failed", "deleteFailed"}
    /\ IF h.pc = "ok"
       THEN /\ refreshAfterWrite(h.id)
            /\ confirmedVer' = Put(confirmedVer, h.id, h.ver)
            /\ Returned("handleReduceGoal.done", h.id, Resolved, 0)
            /\ UNCHANGED processingGoalId
       ELSE /\ processingGoalId' = ""
            /\ Returned("handleReduceGoal.catch", h.id, [kind |-> "toast.error", log |-> h.log], 0)
            /\ UNCHANGED <<lastFetchDetail, lastFetchStats, inFlightDetail, inFlightStats, reqs, confirmedVer>>
    /\ handlers' = handlers \ {h}
    /\ UNCHANGED <<now, challenges, challengeCache, statsCache, hasLoaded, isLoading, lastFetchAll,
                   inFlightAll, serverVars, started, pendingCompletions, statsVer>>

\* ---- the same user logs the goal on a second device: Profile.tsx line 689 there.
\* That device tests its own cache, which need not hold what this one holds.
otherDeviceLogGoal(id, goal) ==
    /\ started < MaxWrites
    /\ started' = started + 1
    /\ handlers' = handlers \cup {[h |-> started + 1, kind |-> "remote", pc |-> "logGoalCompletion", id |-> id,
                                    goal |-> goal, log |-> optimisticLogOf(id, goal), ver |-> 0, err |-> ""]}
    /\ UNCHANGED <<now, cacheVars, inFlightVars, reqs, serverVars, processingGoalId,
                   pendingCompletions, statsVer, confirmedVer, last>>

otherDeviceDone(h) ==
    /\ h \in handlers
    /\ h.kind = "remote" /\ h.pc \in {"ok", "failed"}
    /\ handlers' = handlers \ {h}
    /\ UNCHANGED <<now, cacheVars, inFlightVars, reqs, serverVars, started, processingGoalId,
                   pendingCompletions, statsVer, confirmedVer, last>>

\* ---- another participant logs a completion from their own device
RemoteLog(id, u) ==
    /\ u # user
    /\ srvVer < MaxLogs
    /\ \E i \in 1..Len(SrvGoals(id)) :
          LET g == SrvGoals(id)[i]
          IN /\ countCompletions(g.id, u, getPeriodKey(g.frequency, selectedDate)) < g.maxCompletions
             /\ goal_completions' = goal_completions \cup
                    {newRow(srvVer + 1, id, g.id, u, g.points, g.frequency, selectedDate)}
    /\ srvVer' = srvVer + 1
    /\ UNCHANGED <<now, cacheVars, inFlightVars, reqs, joinVars, editVars, pageVars, statsVer, confirmedVer, last>>

\* ------------------------------------------------- joining by invite code
\* A join call is [j, device, user, code, id, pc, err, refresh]: device is
\* "page" for the Dashboard of this device and "other" for another device;
\* refresh is the operation refreshChallenges(true) returned to the Dashboard.
JoinCodes == {"K7", "bad"}
participantsOf(id) == {r \in challenge_participants : r.challenge_id = id}
StepJoin(j, pc, err) == joinCalls' = (joinCalls \ {j}) \cup {[j EXCEPT !.pc = pc, !.err = err]}
newJoinCall(device, u, code) ==
    [j |-> Cardinality(joinCalls) + 1, device |-> device, user |-> u, code |-> code, id |-> "",
     pc |-> "joinChallengeByCode", err |-> "", refresh |-> NoPromise]

\* ---- handleJoinByCode up to its await: Dashboard.tsx lines 50-56
handleJoinByCode(code) ==
    /\ user # "" /\ code # ""
    /\ Cardinality(joinCalls) < MaxJoins
    /\ joinCalls' = joinCalls \cup {newJoinCall("page", user, code)}
    /\ UNCHANGED <<now, cacheVars, inFlightVars, reqs, goal_completions, srvVer, editVars, challenge_participants,
                   pageVars, statsVer, confirmedVer, last>>

\* ---- the same call made by another user on their own device
otherDeviceJoin(u, code) ==
    /\ u # user
    /\ Cardinality(joinCalls) < MaxJoins
    /\ joinCalls' = joinCalls \cup {newJoinCall("other", u, code)}
    /\ UNCHANGED <<now, cacheVars, inFlightVars, reqs, goal_completions, srvVer, editVars, challenge_participants,
                   pageVars, statsVer, confirmedVer, last>>

\* ---- joinChallengeByCode: the lookup by code, part_005 lines 539-554
joinChallengeByCode(j, ok) ==
    /\ j \in joinCalls /\ j.pc = "joinChallengeByCode"
    /\ LET found == {id \in JoinIds : SrvJoinCode(id) = j.code /\ SrvStatus(id) = "active"}
       IN IF ok /\ found # {}
          THEN joinCalls' = (joinCalls \ {j}) \cup
                   {[j EXCEPT !.id = CHOOSE id \in found : TRUE, !.pc = "checkExisting"]}
          ELSE StepJoin(j, "failed", "Invalid invite code or challenge is not active.")
    /\ UNCHANGED <<now, cacheVars, inFlightVars, reqs, goal_completions, srvVer, editVars, challenge_participants,
                   pageVars, statsVer, confirmedVer, last>>

\* ---- joinChallenge: is the user a participant already?  part_005 lines 482-496
\* a failing query is only logged and the call goes on as for a new participant
joinCheckExisting(j, ok) ==
    /\ j \in joinCalls /\ j.pc = "checkExisting"
    /\ IF ok /\ \E r \in participantsOf(j.id) : r.user_id = j.user
       THEN StepJoin(j, "ok", "")
       ELSE StepJoin(j, "challengeInfo", "")
    /\ UNCHANGED <<now, cacheVars, inFlightVars, reqs, goal_completions, srvVer, editVars, challenge_participants,
                   pageVars, statsVer, confirmedVer, last>>

\* ---- joinChallenge: status and join code of the challenge, part_005 lines 498-513
joinChallengeInfo(j, ok) ==
    /\ j \in joinCalls /\ j.pc = "challengeInfo"
    /\ IF ~ok THEN StepJoin(j, "failed", "Challenge not found")
       ELSE IF SrvStatus(j.id) # "active" THEN StepJoin(j, "failed", "Challenge is not active")
       ELSE IF SrvJoinCode(j.id) # j.code THEN StepJoin(j, "failed", "Invalid join code")
       ELSE StepJoin(j, "count", "")
    /\ UNCHANGED <<now, cacheVars, inFlightVars, reqs, goal_completions, srvVer, editVars, challenge_participants,
                   pageVars, statsVer, confirmedVer, last>>

\* ---- joinChallenge: the capacity test, part_005 lines 515-524
\* a failing count query is only logged: count is null and the test is skipped
joinCount(j, countOk) ==
    /\ j \in joinCalls /\ j.pc = "count"
    /\ IF countOk /\ Cardinality(participantsOf(j.id)) >= SrvMaxPlayers(j.id)
       THEN StepJoin(j, "failed", "Challenge is full")
       ELSE StepJoin(j, "insert", "")
    /\ UNCHANGED <<now, cacheVars, inFlightVars, reqs, goal_completions, srvVer, editVars, challenge_participants,
                   pageVars, statsVer, confirmedVer, last>>

\* ---- joinChallenge: the insert, part_005 lines 527-536
joinInsert(j, ok) ==
    /\ j \in joinCalls /\ j.pc = "insert"
    /\ IF ok
       THEN /\ challenge_participants' = challenge_participants \cup
                   {[n |-> Cardinality(challenge_participants), challenge_id |-> j.id,
                     user_id |-> j.user, role |-> "participant"]}
            /\ StepJoin(j, "ok", "")
       ELSE /\ StepJoin(j, "failed", "insert failed")
            /\ UNCHANGED challenge_participants
    /\ UNCHANGED <<now, cacheVars, inFlightVars, reqs, goal_completions, srvVer, editVars,
                   pageVars, statsVer, confirmedVer, last>>

\* ---- handleJoinByCode after its await, or in its catch: Dashboard.tsx lines 57-65
handleJoinByCodeDone(j) ==
    /\ j \in joinCalls /\ j.device = "page" /\ j.pc \in {"ok", "failed"}
    /\ IF j.pc = "ok"
       THEN /\ refreshChallengesCall(TRUE)
            /\ joinCalls' = (joinCalls \ {j}) \cup {[j EXCEPT !.pc = "refreshing", !.refresh = last'.ret.p]}
       ELSE /\ Returned("handleJoinByCode.catch", j.id, [kind |-> "toast.error", message |-> j.err], 0)
            /\ StepJoin(j, "rejected", j.err)
            /\ UNCHANGED <<isLoading, inFlightAll, reqs>>
    /\ UNCHANGED <<now, challenges, challengeCache, statsCache, hasLoaded, lastFetchAll,
                   lastFetchDetail, lastFetchStats, inFlightDetail, inFlightStats,
                   goal_completions, srvVer, editVars, challenge_participants, pageVars, statsVer, confirmedVer>>

\* ------------------------------------------------- editing a challenge
\* An update call is [n, id, goals, pc, operations, failed, err]: goals are the
\* goal ids of the payload, operations the goal operations the call has put
\* together, failed the backend steps that answered with an error.
\* A goal id of the backend is a UUID; "tmp" is the id of a goal the wizard
\* has just added.
IdLength(goalId) == IF goalId = "tmp" THEN 3 ELSE 36
PayloadGoals == SUBSET {"g1", "tmp"}
GoalOperations == {"delete", "upsert", "insert"}

StepUpdate(c, pc, operations, failed, err) ==
    updateCalls' = (updateCalls \ {c}) \cup
        {[c EXCEPT !.pc = pc, !.operations = operations, !.failed = failed, !.err = err]}

editFrame == UNCHANGED <<now, cacheVars, inFlightVars, reqs, goal_completions, srvVer, joinVars,
                         pageVars, statsVer, confirmedVer, last>>

\* api.updateChallenge(challenge) is called: the header update is sent
updateChallenge(id, goals) ==
    /\ Cardinality(updateCalls) < MaxUpdates
    /\ updateCalls' = updateCalls \cup
          {[n |-> Cardinality(updateCalls) + 1, id |-> id, goals |-> goals, pc |-> "header",
            operations |-> {}, failed |-> {}, err |-> ""]}
    /\ editFrame

\* the header update answers: with an error the call throws it
updateChallengeHeader(c, ok) ==
    /\ c.pc = "header"
    /\ IF ok THEN StepUpdate(c, "existingGoals", {}, {}, "")
       ELSE StepUpdate(c, "thrown", {}, {"header"}, "header")
    /\ editFrame

\* the select of the existing goal ids answers: with an error the call throws
\* it, otherwise the goal operations are put together and started, and with
\* none of them Promise.all([]) resolves and the call returns
updateChallengeExistingGoals(c, ok) ==
    /\ c.pc = "existingGoals"
    /\ IF ~ok THEN StepUpdate(c, "thrown", {}, {"existingGoals"}, "existingGoals")
       ELSE LET existingIds == {SrvGoals(c.id)[i].id : i \in 1..Len(SrvGoals(c.id))}
                payloadIds == {g \in c.goals : g # "" /\ IdLength(g) > 10}
                idsToDelete == existingIds \ payloadIds
                goalsToUpdate == {g \in c.goals : g # "" /\ IdLength(g) > 10}
                goalsToInsert == {g \in c.goals : g = "" \/ IdLength(g) <= 10}
                operations == (IF idsToDelete # {} THEN {"delete"} ELSE {})
                              \cup (IF goalsToUpdate # {} THEN {"upsert"} ELSE {})
                              \cup (IF goalsToInsert # {} THEN {"insert"} ELSE {})
            IN StepUpdate(c, IF operations = {} THEN "returned" ELSE "goalOperations", operations, {}, "")
    /\ editFrame

\* Promise.all(operations) resolves with the results: an error of a result is
\* logged, and the call returns
updateChallengeGoalOperations(c, errors) ==
    /\ c.pc = "goalOperations"
    /\ errors \subseteq c.operations
    /\ StepUpdate(c, "returned", c.operations, errors, "")
    /\ editFrame

\* ------------------------------------------------------- period keys
\* the values of the type Frequency
Frequencies == {"daily", "weekly", "monthly", "once"}
\* the local days getPeriodKey is called with: the first and the last days of
\* 2023, 2024 and 2025, the ends of January 2024 and the day the page shows
PeriodDays == {-365, -364, -2, -1, 0, 1, 5, 6, 30, 31, 362, 363, 365, 366, 367, 372, SelectedDay}
PeriodDates == {startOfDay(d) + h : d \in PeriodDays, h \in {0, 23}}

\* a call of getPeriodKey(frequency, date): nothing but its result
getPeriodKeyCall(frequency, date) ==
    /\ Returned("getPeriodKey", frequency, Value([date |-> date, key |-> getPeriodKey(frequency, date)]), 0)
    /\ UNCHANGED <<now, cacheVars, inFlightVars, reqs, serverVars, pageVars, statsVer, confirmedVer>>

\* ------------------------------------------------------ specification
\* the three deduplicated fetches, invalidation and the full reset
NextFetch ==
    \/ \E force \in BOOLEAN : refreshChallenges(force)
    \/ \E id \in ChallengeIds : fetchChallengeDetail(id)
    \/ \E id \in ChallengeIds : fetchStats(id)
    \/ \E id \in ChallengeIds : invalidateChallenge(id)
    \/ clearCache
    \/ Tick
    \/ \E p \in DOMAIN reqs, ok \in BOOLEAN : ServerReply(p, ok)
    \/ \E p \in DOMAIN reqs : refreshChallengesDone(p)
    \/ \E p \in DOMAIN reqs : fetchChallengeDetailDone(p)
    \/ \E p \in DOMAIN reqs : fetchStatsDone(p)

\* the two read accessors, with the clock and another participant's writes
NextGet ==
    \/ \E id \in ChallengeIds : getChallenge(id)
    \/ \E id \in ChallengeIds : getStats(id)
    \/ Tick
    \/ \E p \in DOMAIN reqs, ok \in BOOLEAN : ServerReply(p, ok)
    \/ \E p \in DOMAIN reqs : fetchChallengeDetailDone(p)
    \/ \E p \in DOMAIN reqs : fetchStatsDone(p)
    \/ \E p \in DOMAIN reqs : getChallengeDone(p)
    \/ \E p \in DOMAIN reqs : getStatsDone(p)

\* the reads of the stats while other participants log completions
NextScores ==
    \/ \E id \in ChallengeIds : getChallenge(id)
    \/ \E id \in ChallengeIds : getStats(id)
    \/ \E id \in ChallengeIds : fetchStats(id)
    \/ \E p \in DOMAIN reqs, ok \in BOOLEAN : ServerReply(p, ok)
    \/ \E p \in DOMAIN reqs : fetchStatsDone(p)
    \/ \E p \in DOMAIN reqs : getChallengeDone(p)
    \/ \E p \in DOMAIN reqs : getStatsDone(p)
    \/ \E id \in ChallengeIds, u \in Users : RemoteLog(id, u)

\* the challenge page: its fetches and its two goal handlers
NextPage ==
    \/ \E id \in ChallengeIds : fetchChallengeDetail(id)
    \/ \E id \in ChallengeIds : fetchStats(id)
    \/ \E p \in DOMAIN reqs, ok \in BOOLEAN : ServerReply(p, ok)
    \/ \E p \in DOMAIN reqs : fetchChallengeDetailDone(p)
    \/ \E p \in DOMAIN reqs : fetchStatsDone(p)
    \/ \E id \in ChallengeIds : \E i \in 1..Len(SrvGoals(id)) : handleLogGoal(id, mapGoal(SrvGoals(id)[i]))
    \/ \E h \in handlers, ok \in BOOLEAN, countOk \in BOOLEAN : logGoalCompletionCheck(h, ok, countOk)
    \/ \E h \in handlers, ok \in BOOLEAN : logGoalCompletionInsert(h, ok)
    \/ \E h \in handlers : handleLogGoalDone(h)
    \/ \E id \in ChallengeIds : \E i \in 1..Len(SrvGoals(id)) : handleReduceGoal(id, SrvGoals(id)[i].id)
    \/ \E h \in handlers, ok \in BOOLEAN : getLastLogReply(h, ok)
    \/ \E h \in handlers : handleReduceGoalFound(h)
    \/ \E h \in handlers, ok \in BOOLEAN : deleteLog(h, ok)
    \/ \E h \in handlers : handleReduceGoalDone(h)

\* reads and fetches around an invalidation, the clock standing still and the
\* backend answering every read
NextInvalidate ==
    \/ \E id \in ChallengeIds : invalidateChallenge(id)
    \/ \E id \in ChallengeIds : fetchChallengeDetail(id)
    \/ \E id \in ChallengeIds : fetchStats(id)
    \/ \E id \in ChallengeIds : getChallenge(id)
    \/ \E id \in ChallengeIds : getStats(id)
    \/ \E p \in DOMAIN reqs : ServerReply(p, TRUE)
    \/ \E p \in DOMAIN reqs : fetchChallengeDetailDone(p)
    \/ \E p \in DOMAIN reqs : fetchStatsDone(p)
    \/ \E p \in DOMAIN reqs : getChallengeDone(p)
    \/ \E p \in DOMAIN reqs : getStatsDone(p)

\* the writes of one user from two devices
NextWrites ==
    \/ \E id \in ChallengeIds : fetchChallengeDetail(id)
    \/ \E p \in DOMAIN reqs, ok \in BOOLEAN : ServerReply(p, ok)
    \/ \E p \in DOMAIN reqs : fetchChallengeDetailDone(p)
    \/ \E p \in DOMAIN reqs : fetchStatsDone(p)
    \/ \E id \in ChallengeIds : \E i \in 1..Len(SrvGoals(id)) : handleLogGoal(id, mapGoal(SrvGoals(id)[i]))
    \/ \E h \in handlers, ok \in BOOLEAN, countOk \in BOOLEAN : logGoalCompletionCheck(h, ok, countOk)
    \/ \E h \in handlers, ok \in BOOLEAN : logGoalCompletionInsert(h, ok)
    \/ \E h \in handlers : handleLogGoalDone(h)
    \/ \E id \in ChallengeIds : \E i \in 1..Len(SrvGoals(id)) : otherDeviceLogGoal(id, mapGoal(SrvGoals(id)[i]))
    \/ \E h \in handlers : otherDeviceDone(h)

\* the list refresh, the detail fetch and the stats fetch of a challenge in any
\* order, while other participants log completions
NextConverge ==
    \/ refreshChallenges(TRUE)
    \/ \E id \in ChallengeIds : fetchChallengeDetail(id)
    \/ \E id \in ChallengeIds : fetchStats(id)
    \/ \E id \in ChallengeIds : invalidateChallenge(id)
    \/ \E p \in DOMAIN reqs, ok \in BOOLEAN : ServerReply(p, ok)
    \/ \E p \in DOMAIN reqs : fetchChallengeDetailDone(p)
    \/ \E p \in DOMAIN reqs : fetchStatsDone(p)
    \/ \E p \in DOMAIN reqs : refreshChallengesDone(p)
    \/ \E id \in ChallengeIds, u \in Users : RemoteLog(id, u)

\* the Dashboard: the list refresh of its mount effect and joins by invite code,
\* of this user and of others
NextJoin ==
    \/ refreshChallenges(FALSE)
    \/ \E code \in JoinCodes : handleJoinByCode(code)
    \/ \E u \in Users, code \in JoinCodes : otherDeviceJoin(u, code)
    \/ \E j \in joinCalls, ok \in BOOLEAN : joinChallengeByCode(j, ok)
    \/ \E j \in joinCalls, ok \in BOOLEAN : joinCheckExisting(j, ok)
    \/ \E j \in joinCalls, ok \in BOOLEAN : joinChallengeInfo(j, ok)
    \/ \E j \in joinCalls, countOk \in BOOLEAN : joinCount(j, countOk)
    \/ \E j \in joinCalls, ok \in BOOLEAN : joinInsert(j, ok)
    \/ \E j \in joinCalls : handleJoinByCodeDone(j)
    \/ \E p \in DOMAIN reqs, ok \in BOOLEAN : ServerReply(p, ok)
    \/ \E p \in DOMAIN reqs : refreshChallengesDone(p)

\* two challenge pages open at the same time: the fetches of both and, on the
\* second page, the invalidation and the goal handler, the backend answering
\* every read and refusing every write
NextIsolation ==
    \/ \E id \in PageIds : fetchChallengeDetail(id)
    \/ \E id \in PageIds : fetchStats(id)
    \/ \E id \in PageIds \ ChallengeIds : invalidateChallenge(id)
    \/ \E p \in DOMAIN reqs : ServerReply(p, TRUE)
    \/ \E p \in DOMAIN reqs : fetchChallengeDetailDone(p)
    \/ \E p \in DOMAIN reqs : fetchStatsDone(p)
    \/ \E id \in PageIds \ ChallengeIds : \E i \in 1..Len(SrvGoals(id)) : handleLogGoal(id, mapGoal(SrvGoals(id)[i]))
    \/ \E h \in handlers : logGoalCompletionCheck(h, FALSE, TRUE)
    \/ \E h \in handlers : handleLogGoalDone(h)

\* the wizard saving a challenge, also twice at the same time
NextUpdate ==
    \/ \E id \in ChallengeIds, goals \in PayloadGoals : updateChallenge(id, goals)
    \/ \E c \in updateCalls, ok \in BOOLEAN : updateChallengeHeader(c, ok)
    \/ \E c \in updateCalls, ok \in BOOLEAN : updateChallengeExistingGoals(c, ok)
    \/ \E c \in updateCalls, errors \in SUBSET GoalOperations : updateChallengeGoalOperations(c, errors)

\* getPeriodKey called with any frequency and date
NextPeriod == \E frequency \in Frequencies, date \in PeriodDates : getPeriodKeyCall(frequency, date)

Next == NextFetch \/ NextGet \/ NextScores \/ NextPage \/ NextInvalidate \/ NextWrites \/ NextConverge \/ NextJoin
          \/ NextPeriod \/ NextIsolation \/ NextUpdate

Spec == Init /\ [][Next]_vars
SpecFetch == Init /\ [][NextFetch]_vars
SpecGet == Init /\ [][NextGet]_vars
SpecScores == Init /\ [][NextScores]_vars
SpecPage == Init /\ [][NextPage]_vars
SpecWrites == Init /\ [][NextWrites]_vars
SpecInvalidate == Init /\ [][NextInvalidate]_vars
SpecConverge == Init /\ [][NextConverge]_vars
SpecJoin == Init /\ [][NextJoin]_vars
SpecPeriod == Init /\ [][NextPeriod]_vars
SpecUpdate == Init /\ [][NextUpdate]_vars
SpecIsolation == Init /\ [][NextIsolation]_vars

\* ============================================================ properties
InFlightOf(op, id) == {p \in DOMAIN reqs : reqs[p].op = op /\ reqs[p].id = id}
StartsNothing == reqs' = reqs
StartsExactly(op, id) ==
    LET new == DOMAIN reqs' \ DOMAIN reqs
    IN /\ Cardinality(new) = 1
       /\ \A p \in new : reqs'[p].op = op /\ reqs'[p].id = id /\ reqs'[p].st = "sent"
       /\ \A p \in DOMAIN reqs : p \in DOMAIN reqs' /\ reqs'[p] = reqs[p]

\* C1: a getStats(id) (resp. getChallenge(id)) call for an uncached id that starts
\* while an earlier call's read for the same id has not returned yet starts no
\* further read, so that N concurrent calls cost one call to the data layer.
C1_ConcurrentReadsShareOneCall ==
    [][\A id \in ChallengeIds :
          /\ (/\ getStats(id)
              /\ id \notin DOMAIN statsCache
              /\ \E p \in InFlightOf("getStats", id) : reqs[p].st = "sent") => StartsNothing
          /\ (/\ getChallenge(id)
              /\ id \notin DOMAIN challengeCache
              /\ \E p \in InFlightOf("getChallenge", id) : reqs[p].st = "sent") => StartsNothing]_vars

\* C2: at most one request started by refreshChallenges, fetchChallengeDetail or
\* fetchStats is outstanding per scope and key, and a call that is not skipped as
\* fresh while such a request is in flight starts no read and returns that request.
C2_AtMostOne ==
    \A op \in {"refreshChallenges", "fetchChallengeDetail", "fetchStats"} :
        \A id \in ChallengeIds \cup {"all"} : Cardinality(InFlightOf(op, id)) <= 1

JoinsPending(op, id) ==
    /\ StartsNothing
    /\ last'.op = op /\ last'.id = id /\ last'.net = 0
    /\ last'.ret.kind = "promise"
    /\ last'.ret.p \in InFlightOf(op, id)

C2_JoinStep ==
    /\ \A force \in BOOLEAN :
          (/\ refreshChallenges(force)
           /\ InFlightOf("refreshChallenges", "all") # {}
           /\ (force \/ ~IsFresh(lastFetchAll))) => JoinsPending("refreshChallenges", "all")
    /\ \A id \in ChallengeIds :
          (/\ fetchChallengeDetail(id)
           /\ InFlightOf("fetchChallengeDetail", id) # {}
           /\ ~IsFresh(GetOr(lastFetchDetail, id, 0))) => JoinsPending("fetchChallengeDetail", id)
    /\ \A id \in ChallengeIds :
          (/\ fetchStats(id)
           /\ InFlightOf("fetchStats", id) # {}
           /\ ~IsFresh(GetOr(lastFetchStats, id, 0))) => JoinsPending("fetchStats", id)

C2_Dedup == [] C2_AtMostOne /\ [][C2_JoinStep]_vars

\* a fetch has returned the request that was already in flight, at no network cost
C2_Witness ==
    /\ last.op \in {"refreshChallenges", "fetchChallengeDetail", "fetchStats"}
    /\ last.ret.kind = "promise"
    /\ last.net = 0
    /\ last.ret.p \in InFlightOf(last.op, last.id)

\* C3: getChallenge(id) / getStats(id) on cached data returns the cached value at
\* once; it starts no read while the data is younger than the window, and exactly
\* one background fetch when it is at least that old and none is in flight.
CachedRead(id, cached, lastFetch, fetchOp) ==
    /\ last'.ret = Value(cached)
    /\ now - lastFetch < CACHE_TTL_MS => StartsNothing /\ last'.net = 0
    /\ (now - lastFetch >= CACHE_TTL_MS /\ InFlightOf(fetchOp, id) = {})
          => StartsExactly(fetchOp, id) /\ last'.net = 1

C3_CachedReadStep ==
    \A id \in ChallengeIds :
        /\ (getChallenge(id) /\ id \in DOMAIN challengeCache)
              => CachedRead(id, challengeCache[id], GetOr(lastFetchDetail, id, 0), "fetchChallengeDetail")
        /\ (getStats(id) /\ id \in DOMAIN statsCache)
              => CachedRead(id, statsCache[id], GetOr(lastFetchStats, id, 0), "fetchStats")

C3_StaleWhileRevalidate == [][C3_CachedReadStep]_vars

\* a read of data exactly one window old has answered from the cache and started a refresh
C3_Witness ==
    /\ last.op \in {"getChallenge", "getStats"}
    /\ last.ret.kind = "value"
    /\ last.net = 1
    /\ now - GetOr(IF last.op = "getChallenge" THEN lastFetchDetail ELSE lastFetchStats, last.id, 0) = CACHE_TTL_MS

\* C4: getChallenge(id) / getStats(id) without a cache entry makes exactly one call
\* to the data layer; when the answer arrives it is stored under id, the freshness
\* timestamp of id becomes the current time and the answer is what the caller gets.
C4_UncachedReadStep ==
    /\ \A id \in ChallengeIds :
          /\ (getChallenge(id) /\ id \notin DOMAIN challengeCache)
                => StartsExactly("getChallenge", id) /\ last'.ret.kind = "promise"
          /\ (getStats(id) /\ id \notin DOMAIN statsCache)
                => StartsExactly("getStats", id) /\ last'.ret.kind = "promise"
    /\ \A p \in DOMAIN reqs :
          /\ (getChallengeDone(p) /\ reqs[p].data # Undefined)
                => /\ reqs[p].id \in DOMAIN challengeCache'
                   /\ challengeCache'[reqs[p].id] = reqs[p].data.v
                   /\ reqs[p].id \in DOMAIN lastFetchDetail'
                   /\ lastFetchDetail'[reqs[p].id] = now
                   /\ last'.ret = Value(reqs[p].data.v)
                   /\ DOMAIN reqs' = DOMAIN reqs \ {p}
          /\ (getStatsDone(p) /\ reqs[p].ok)
                => /\ reqs[p].id \in DOMAIN statsCache'
                   /\ statsCache'[reqs[p].id] = reqs[p].data.v
                   /\ reqs[p].id \in DOMAIN lastFetchStats'
                   /\ lastFetchStats'[reqs[p].id] = now
                   /\ last'.ret = Value(reqs[p].data.v)
                   /\ DOMAIN reqs' = DOMAIN reqs \ {p}

C4_FetchOnMiss == [][C4_UncachedReadStep]_vars

\* an awaited read has resolved: its answer is cached under its id and stamped with the current time
C4_Witness ==
    /\ last.op \in {"getChallenge.done", "getStats.done"}
    /\ last.ret.kind = "value"
    /\ IF last.op = "getChallenge.done"
       THEN /\ last.id \in DOMAIN challengeCache /\ challengeCache[last.id] = last.ret.v
            /\ last.id \in DOMAIN lastFetchDetail /\ lastFetchDetail[last.id] = now
       ELSE /\ last.id \in DOMAIN statsCache /\ statsCache[last.id] = last.ret.v
            /\ last.id \in DOMAIN lastFetchStats /\ lastFetchStats[last.id] = now

\* ---- aggregates read off the cache, a missing row counting as 0
RECURSIVE SumFn(_, _)
SumFn(f, S) == IF S = {} THEN 0 ELSE LET x == CHOOSE y \in S : TRUE IN f[x] + SumFn(f, S \ {x})

TotalScore(stats, u) ==
    SumFn([i \in 1..Len(stats.scores) |-> stats.scores[i].total_score],
          {i \in 1..Len(stats.scores) : stats.scores[i].user_id = u})
GoalScore(stats, u, g) ==
    SumFn([i \in 1..Len(stats.goalScores) |-> stats.goalScores[i].score],
          {i \in 1..Len(stats.goalScores) : stats.goalScores[i].user_id = u /\ stats.goalScores[i].goal_id = g})
PeriodCount(stats, u, g, key) ==
    SumFn([i \in 1..Len(stats.periodCounts) |-> stats.periodCounts[i].count],
          {i \in 1..Len(stats.periodCounts) : /\ stats.periodCounts[i].user_id = u
                                              /\ stats.periodCounts[i].goal_id = g
                                              /\ stats.periodCounts[i].period_key = key})
DailyPoints(stats, u, g, day) ==
    SumFn([i \in 1..Len(stats.dailyPoints) |-> stats.dailyPoints[i].points],
          {i \in 1..Len(stats.dailyPoints) : /\ stats.dailyPoints[i].user_id = u
                                             /\ stats.dailyPoints[i].goal_id = g
                                             /\ stats.dailyPoints[i].day = day})
ParticipantScore(cache, id, u) ==
    IF id \notin DOMAIN cache THEN 0
    ELSE SumFn([i \in 1..Len(cache[id].participants) |-> cache[id].participants[i].score],
               {i \in 1..Len(cache[id].participants) : cache[id].participants[i].userId = u})

\* the completion logs the two operations are tried with in every state
LogInputs(id) ==
    [id : {0}, challengeId : {id}, goalId : {"g1", "g2"}, userId : {"u1", "u2", "u3"},
     timestamp : {selectedDate, selectedDate + 24}, pointsEarned : {10, -5}]

AddThenRemoveStats(id, log) == removeOptimisticStats(addOptimisticStats(statsCache, id, log), id, log)
AddThenRemoveChallenge(id, log) == removeOptimisticChallenge(addOptimisticChallenge(challengeCache, id, log), id, log)

\* C5: in every cache state and for every log L, addOptimisticLog(c, L) followed at
\* once by removeOptimisticLog(c, L.id, L) leaves the total score of L's user, the
\* (user, goal) score, the count of L's period bucket, the daily points of L's day
\* and the participant's score as they were, a missing row counting as 0.
C5_AddThenRemoveKeepsAggregates ==
    \A id \in ChallengeIds : \A log \in LogInputs(id) :
        LET before == GetOr(statsCache, id, EMPTY_STATS)
            after == GetOr(AddThenRemoveStats(id, log), id, EMPTY_STATS)
        IN /\ TotalScore(after, log.userId) = TotalScore(before, log.userId)
           /\ GoalScore(after, log.userId, log.goalId) = GoalScore(before, log.userId, log.goalId)
           /\ PeriodCount(after, log.userId, log.goalId, optimisticPeriodKey(log))
                 = PeriodCount(before, log.userId, log.goalId, optimisticPeriodKey(log))
           /\ DailyPoints(after, log.userId, log.goalId, dayStrOf(log))
                 = DailyPoints(before, log.userId, log.goalId, dayStrOf(log))
           /\ ParticipantScore(AddThenRemoveChallenge(id, log), id, log.userId)
                 = ParticipantScore(challengeCache, id, log.userId)

\* the page has added a log to a cache without rows for it and taken it back after
\* the write failed: the rows are there and every aggregate of the log is 0
C5_Witness ==
    /\ last.op = "handleLogGoal.catch"
    /\ last.id \in DOMAIN statsCache
    /\ statsCache[last.id].scores # <<>>
    /\ statsCache[last.id].dailyPoints # <<>>
    /\ TotalScore(statsCache[last.id], last.ret.log.userId) = 0
    /\ GoalScore(statsCache[last.id], last.ret.log.userId, last.ret.log.goalId) = 0
    /\ PeriodCount(statsCache[last.id], last.ret.log.userId, last.ret.log.goalId, optimisticPeriodKey(last.ret.log)) = 0
    /\ DailyPoints(statsCache[last.id], last.ret.log.userId, last.ret.log.goalId, dayStrOf(last.ret.log)) = 0
    /\ ParticipantScore(challengeCache, last.id, last.ret.log.userId) = 0

\* C6: addOptimisticLog(c, L) followed at once by removeOptimisticLog(c, L.id, L)
\* leaves statsById and challengeById exactly as they were, with the same entries
\* and rows, also when there was no entry for c or no row for L before the add.
C6_AddThenRemoveIsIdentity ==
    \A id \in ChallengeIds : \A log \in LogInputs(id) :
        /\ AddThenRemoveStats(id, log) = statsCache
        /\ AddThenRemoveChallenge(id, log) = challengeCache

\* C7: when the durable write of handleLogGoal (logGoalCompletion) or of
\* handleReduceGoal (deleteLog) fails after the optimistic change, the handler
\* undoes the change with the log it was made with and reports the error.
C7_FailedWriteStep ==
    \A h \in handlers :
        /\ (handleLogGoalDone(h) /\ h.pc = "failed")
              => /\ statsCache' = removeOptimisticStats(statsCache, h.id, h.log)
                 /\ challengeCache' = removeOptimisticChallenge(challengeCache, h.id, h.log)
                 /\ last'.ret.kind = "toast.error"
        /\ (handleReduceGoalDone(h) /\ h.pc = "deleteFailed")
              => /\ statsCache' = addOptimisticStats(statsCache, h.id, h.log)
                 /\ challengeCache' = addOptimisticChallenge(challengeCache, h.id, h.log)
                 /\ last'.ret.kind = "toast.error"

C7_FailedWriteIsReverted == [][C7_FailedWriteStep]_vars

\* C8: once a write to challenge id is confirmed and the handler has invalidated
\* and refetched, then as soon as no stats fetch for id is in flight and one has
\* completed successfully, statsById[id] is a snapshot taken after the write.
C8_SnapshotAfterWrite ==
    \A id \in DOMAIN confirmedVer :
        (/\ InFlightOf("fetchStats", id) = {}
         /\ id \notin DOMAIN inFlightStats
         /\ GetOr(lastFetchStats, id, 0) # 0)
            => id \in DOMAIN statsVer /\ statsVer[id] >= confirmedVer[id]

\* C9: when a successful stats fetch for id completes, by fetchStats or by the
\* awaited path of getStats, while challengeById[id] is cached, every participant's
\* score becomes the total_score of that user in the returned scores, 0 if none.
ScoresApplied(id, scores) ==
    /\ id \in DOMAIN challengeCache'
    /\ \A i \in 1..Len(challengeCache'[id].participants) :
          challengeCache'[id].participants[i].score = scoreOf(scores, challengeCache'[id].participants[i].userId)

C9_StatsFetchStep ==
    \A p \in DOMAIN reqs :
        ((fetchStatsDone(p) \/ getStatsDone(p)) /\ reqs[p].ok /\ reqs[p].id \in DOMAIN challengeCache)
            => ScoresApplied(reqs[p].id, reqs[p].data.v.scores)

C9_ScoresFollowStats == [][C9_StatsFetchStep]_vars

\* C10: clearCache leaves the list not loaded, both maps empty, every freshness
\* timestamp reset and every in-flight marker reset.
C10_ClearCacheStep ==
    clearCache => /\ challenges' = Null
                  /\ hasLoaded' = FALSE
                  /\ challengeCache' = EmptyMap
                  /\ statsCache' = EmptyMap
                  /\ lastFetchAll' = 0
                  /\ lastFetchDetail' = EmptyMap
                  /\ lastFetchStats' = EmptyMap
                  /\ inFlightAll' = NoPromise
                  /\ inFlightDetail' = EmptyMap
                  /\ inFlightStats' = EmptyMap

C10_ClearCacheResetsAll == [][C10_ClearCacheStep]_vars

\* C11: in every reachable state, whatever the interleaving of the logGoalCompletion
\* calls of one user (two devices, or two writes of handleLogGoal in flight), the
\* completions persisted for one (user, goal, period key) are at most the goal's
\* max completions per period.
C11_LimitNeverExceeded ==
    \A r \in goal_completions :
        countCompletions(r.goal_id, r.user_id, r.period_key) <= maxCompletionsOf(r.challenge_id, r.goal_id)

\* C12: for a daily goal with max completions 1, a logGoalCompletion that comes
\* when a completion of the same user, goal and calendar day is persisted is
\* rejected, with the limit-reached error once the goal is found, and goes on to
\* no insert.
C12_SecondLogStep ==
    \A h \in handlers : \A ok \in BOOLEAN, countOk \in BOOLEAN :
        (/\ logGoalCompletionCheck(h, ok, countOk)
         /\ h.goal.frequency = "daily"
         /\ maxCompletionsOf(h.id, h.goal.id) = 1
         /\ countCompletions(h.goal.id, h.log.userId, getPeriodKey(h.goal.frequency, h.log.timestamp)) >= 1)
            => \E after \in handlers' :
                  /\ after.h = h.h
                  /\ after.pc = "failed"
                  /\ ok => after.err = "limit reached"

C12_SecondLogRejected == [][C12_SecondLogStep]_vars

\* C13: handleLogGoal applies addOptimisticLog before logGoalCompletion is issued,
\* and when the write resolves exactly one outcome follows: on success the
\* invalidation and the two refetches, on failure removeOptimisticLog with the
\* same log; never both and never neither.
Confirmed(h) ==
    /\ last'.op = "handleLogGoal.done"
    /\ h.id \in DOMAIN lastFetchDetail' /\ lastFetchDetail'[h.id] = 0
    /\ h.id \in DOMAIN lastFetchStats' /\ lastFetchStats'[h.id] = 0
    /\ InFlightOf("fetchChallengeDetail", h.id)' # {}
    /\ InFlightOf("fetchStats", h.id)' # {}

RolledBack(h) ==
    /\ last'.op = "handleLogGoal.catch"
    /\ last'.ret.log = h.log
    /\ statsCache' = removeOptimisticStats(statsCache, h.id, h.log)
    /\ challengeCache' = removeOptimisticChallenge(challengeCache, h.id, h.log)

C13_MutationStep ==
    /\ \A id \in ChallengeIds : \A i \in 1..Len(SrvGoals(id)) :
          LET goal == mapGoal(SrvGoals(id)[i])
          IN handleLogGoal(id, goal)
                => /\ statsCache' = addOptimisticStats(statsCache, id, optimisticLogOf(id, goal))
                   /\ challengeCache' = addOptimisticChallenge(challengeCache, id, optimisticLogOf(id, goal))
                   /\ goal_completions' = goal_completions
                   /\ \E h \in handlers' \ handlers :
                         h.pc = "logGoalCompletion" /\ h.log = optimisticLogOf(id, goal)
    /\ \A h \in handlers :
          handleLogGoalDone(h)
             => IF h.pc = "ok"
                THEN /\ Confirmed(h)
                     /\ statsCache' = statsCache /\ challengeCache' = challengeCache
                ELSE /\ RolledBack(h)
                     /\ UNCHANGED <<lastFetchDetail, lastFetchStats, reqs, inFlightDetail, inFlightStats>>

C13_AppliedThenOneOutcome == [][C13_MutationStep]_vars

\* a write of handleLogGoal has failed and its log has been taken back, with no
\* refetch started: no request is in flight and no timestamp is invalidated
C13_Witness ==
    /\ last.op = "handleLogGoal.catch"
    /\ last.ret.log.goalId = "g1"
    /\ reqs = EmptyMap
    /\ GetOr(lastFetchDetail, last.id, 0) # 0
    /\ last.id \in DOMAIN statsCache
    /\ TotalScore(statsCache[last.id], user) = 0

\* C14: invalidateChallenge(id) leaves both freshness timestamps of id at a value
\* with which fetchChallengeDetail(id) and fetchStats(id) are not skipped as fresh
\* and getChallenge(id) / getStats(id) on cached data have a refresh in flight
\* when they return.
Invalidated(lastFetch, id) == id \in DOMAIN lastFetch /\ lastFetch[id] = 0

NotSkipped(op, id) == last'.ret.kind = "promise" /\ last'.ret.p \in InFlightOf(op, id)'

C14_InvalidateStep ==
    \A id \in ChallengeIds :
        /\ invalidateChallenge(id)
              => /\ Invalidated(lastFetchDetail', id) /\ Invalidated(lastFetchStats', id)
                 /\ now' - lastFetchDetail'[id] >= CACHE_TTL_MS
                 /\ now' - lastFetchStats'[id] >= CACHE_TTL_MS
        /\ (fetchChallengeDetail(id) /\ Invalidated(lastFetchDetail, id)) => NotSkipped("fetchChallengeDetail", id)
        /\ (fetchStats(id) /\ Invalidated(lastFetchStats, id)) => NotSkipped("fetchStats", id)
        /\ (getChallenge(id) /\ id \in DOMAIN challengeCache /\ Invalidated(lastFetchDetail, id))
              => last'.ret = Value(challengeCache[id]) /\ InFlightOf("fetchChallengeDetail", id)' # {}
        /\ (getStats(id) /\ id \in DOMAIN statsCache /\ Invalidated(lastFetchStats, id))
              => last'.ret = Value(statsCache[id]) /\ InFlightOf("fetchStats", id)' # {}

C15_MergeStep ==
    \A p \in DOMAIN reqs :
        (refreshChallengesDone(p) /\ reqs[p].ok) =>
            \A i \in 1..Len(reqs[p].data.v) :
                LET c == reqs[p].data.v[i]
                IN (/\ c.id \in DOMAIN challengeCache
                    /\ Len(challengeCache[c.id].goals) > 0
                    /\ c.goals = <<>>)
                   => challengeCache'[c.id].goals = challengeCache[c.id].goals
C15_ListRefreshKeepsGoals == [][C15_MergeStep]_vars

\* a list refresh has completed after the detail of a challenge was cached
C15_Witness ==
    /\ hasLoaded
    /\ \E id \in DOMAIN challengeCache :
          /\ Len(challengeCache[id].goals) > 0
          /\ id \in DOMAIN lastFetchDetail
          /\ lastFetchDetail[id] > 0
          /\ lastFetchAll > lastFetchDetail[id]
          /\ challenges.kind = "value"
          /\ \E i \in 1..Len(challenges.v) : challenges.v[i].id = id /\ challenges.v[i].goals = <<>>

\* ---------------------------------------------------------------- C16
\* C16: when the backend read of refreshChallenges, fetchChallengeDetail or
\* fetchStats fails, the challenge list, the challenge cache, the stats cache
\* and the three freshness timestamps are what they were before.
ReadFailed(p) == ~reqs[p].ok \/ reqs[p].data = Undefined
FetchDone(p) == refreshChallengesDone(p) \/ fetchChallengeDetailDone(p) \/ fetchStatsDone(p)
C16_FailureStep ==
    \A p \in DOMAIN reqs :
        (FetchDone(p) /\ ReadFailed(p)) =>
            UNCHANGED <<challenges, challengeCache, statsCache, lastFetchAll, lastFetchDetail, lastFetchStats>>
C16_FailureKeepsCache == [][C16_FailureStep]_vars

\* a refresh of cached statistics has failed
C16_Witness ==
    /\ last.op = "fetchStats.failed"
    /\ last.id \in DOMAIN statsCache
    /\ last.id \in DOMAIN lastFetchStats
    /\ hasLoaded

\* ---------------------------------------------------------------- C17
\* the in-flight marker of the fetch that p names is absent after the step
MarkerCleared(p) ==
    /\ p \notin DOMAIN reqs'
    /\ IF reqs[p].op = "refreshChallenges" THEN inFlightAll' = NoPromise
       ELSE IF reqs[p].op = "fetchChallengeDetail" THEN reqs[p].id \notin DOMAIN inFlightDetail'
       ELSE reqs[p].id \notin DOMAIN inFlightStats'
C17_DoneStep == \A p \in DOMAIN reqs : FetchDone(p) => MarkerCleared(p)

\* the failure of a fetch is the latest thing a fetch operation has reported
JustFailed(op, id) == last.op = op \o ".failed" /\ last.id = id
SkippedAsFresh == StartsNothing /\ last'.ret = Resolved /\ last'.net = 0

\* C17 as stated: when a fetch of refreshChallenges, fetchChallengeDetail or
\* fetchStats completes, its in-flight marker is cleared, and the next call
\* for the same key after a failure issues a new network request.
C17_RetryStepAsStated ==
    /\ C17_DoneStep
    /\ \A force \in BOOLEAN :
          (JustFailed("refreshChallenges", "all") /\ refreshChallenges(force))
              => StartsExactly("refreshChallenges", "all")
    /\ \A id \in ChallengeIds :
          /\ (JustFailed("fetchChallengeDetail", id) /\ fetchChallengeDetail(id))
                => StartsExactly("fetchChallengeDetail", id)
          /\ (JustFailed("fetchStats", id) /\ fetchStats(id))
                => StartsExactly("fetchStats", id)
C17_FailureAlwaysRetried == [][C17_RetryStepAsStated]_vars

\* C17 (amended): when a fetch of refreshChallenges, fetchChallengeDetail or
\* fetchStats completes, with success or failure, its in-flight marker is
\* cleared; the next call for the same key after a failure is never joined
\* to the failed request: it issues a new network request, unless the data
\* of that key is still within the freshness window and the call is not
\* forced, in which case it is skipped.
C17_RetryStep ==
    /\ C17_DoneStep
    /\ \A force \in BOOLEAN :
          (JustFailed("refreshChallenges", "all") /\ refreshChallenges(force))
              => IF ~force /\ IsFresh(lastFetchAll) THEN SkippedAsFresh
                 ELSE StartsExactly("refreshChallenges", "all")
    /\ \A id \in ChallengeIds :
          /\ (JustFailed("fetchChallengeDetail", id) /\ fetchChallengeDetail(id))
                => IF IsFresh(GetOr(lastFetchDetail, id, 0)) THEN SkippedAsFresh
                   ELSE StartsExactly("fetchChallengeDetail", id)
          /\ (JustFailed("fetchStats", id) /\ fetchStats(id))
                => IF IsFresh(GetOr(lastFetchStats, id, 0)) THEN SkippedAsFresh
                   ELSE StartsExactly("fetchStats", id)
C17_FailureDoesNotBlockRetry == [][C17_RetryStep]_vars

\* a forced list refresh has failed while the list is still fresh
C17_Witness ==
    /\ JustFailed("refreshChallenges", "all")
    /\ hasLoaded
    /\ IsFresh(lastFetchAll)
    /\ inFlightAll = NoPromise
    /\ InFlightOf("refreshChallenges", "all") = {}

\* ---------------------------------------------------------------- C18
\* C18: the operation of refreshChallenges, fetchChallengeDetail and
\* fetchStats never fails: when its backend read fails the operation still
\* resolves; a getChallenge or getStats call that starts a refresh in the
\* background returns the cached value; and the only failure any call site
\* sees is the one of getStats' own awaited read.
C18_ErrorStep ==
    /\ \A p \in DOMAIN reqs : (FetchDone(p) /\ ReadFailed(p)) => last'.ret = Resolved
    /\ \A id \in ChallengeIds :
          /\ (getChallenge(id) /\ id \in DOMAIN challengeCache) => last'.ret = Value(challengeCache[id])
          /\ (getStats(id) /\ id \in DOMAIN statsCache) => last'.ret = Value(statsCache[id])
    /\ last'.ret.kind = "thrown" => last'.op = "getStats.done"
C18_RefreshErrorsAreSwallowed == [][C18_ErrorStep]_vars

\* a detail refresh that getChallenge started in the background has failed
C18_Witness ==
    /\ last.op = "fetchChallengeDetail.failed"
    /\ last.id \in DOMAIN challengeCache
    /\ last.ret = Resolved
    /\ last.id \notin DOMAIN inFlightDetail

\* ---------------------------------------------------------------- C19
GoalOf(f) == [id |-> "g1", points |-> 10, frequency |-> f, maxCompletions |-> 1]

\* C19: for a goal of every frequency, the period-count bucket that
\* addOptimisticLog increments for a log of the goal has the key getPeriodKey
\* gives for the goal's frequency and the log's date, and the period count
\* the goal screen reads for the goal is one higher right after the add.
C19_OptimisticBucketIsPeriodBucket ==
    \A id \in ChallengeIds : \A f \in Frequencies :
        LET goal == GoalOf(f)
            log == optimisticLogOf(id, goal)
            before == pageStats(id)
            after == addOptimisticStats(statsCache, id, log)[id]
        IN /\ optimisticPeriodKey(log) = getPeriodKey(f, log.timestamp)
           /\ periodCountOf(after, <<goal>>, goal) = periodCountOf(before, <<goal>>, goal) + 1

\* ---------------------------------------------------------------- C20
\* statsById[id] is the backend's snapshot and the participants carry its scores
SnapshotCached(id) ==
    /\ id \in DOMAIN statsCache
    /\ statsCache[id] = get_challenge_stats(goal_completions, id)
    /\ id \in DOMAIN challengeCache
    /\ \A i \in 1..Len(challengeCache[id].participants) :
          challengeCache[id].participants[i].score
              = scoreOf(statsCache[id].scores, challengeCache[id].participants[i].userId)

\* C20: when a stats fetch has completed between addOptimisticLog(c, L) and
\* the removeOptimisticLog(c, L.id, L) that rolls back the failed write of L,
\* so that the cache holds a server snapshot without L, then after the
\* rollback statsById[c] and the participant scores of c are still those of
\* the snapshot.
C20_RollbackStep ==
    \A h \in handlers :
        (handleLogGoalDone(h) /\ h.pc = "failed" /\ SnapshotCached(h.id))
            => /\ statsCache'[h.id] = statsCache[h.id]
               /\ challengeCache'[h.id].participants = challengeCache[h.id].participants
C20_RollbackKeepsSnapshot == [][C20_RollbackStep]_vars

\* ---------------------------------------------------------------- C21
\* nothing has been called since clearCache: every request still outstanding
\* was in flight when the cache was cleared
JustCleared == last.op = "clearCache"

\* C21: a list, detail or stats fetch that was in flight when clearCache ran
\* writes nothing into the challenge list, the challenge cache or the stats
\* cache and sets no freshness timestamp when it completes after the clear.
C21_StaleCompletionStep ==
    \A p \in DOMAIN reqs :
        (JustCleared /\ FetchDone(p)) =>
            UNCHANGED <<challenges, challengeCache, statsCache, lastFetchAll, lastFetchDetail, lastFetchStats>>
C21_ClearedCacheStaysClear == [][C21_StaleCompletionStep]_vars

\* ---------------------------------------------------------------- C22
\* no read of id is outstanding and no handler of the page has a write pending
Quiet(id) ==
    /\ \A p \in DOMAIN reqs : reqs[p].id # id
    /\ id \notin DOMAIN inFlightDetail /\ id \notin DOMAIN inFlightStats
    /\ handlers = {}

\* C22: whenever the challenge and the stats of an id are both cached and no
\* fetch and no optimistic write of the id is outstanding, the score of every
\* participant of the cached challenge is the total_score of that user in
\* the cached stats, 0 when the user has no row.
C22_ScoresMatchStats ==
    \A id \in DOMAIN challengeCache \cap DOMAIN statsCache :
        Quiet(id) =>
            \A i \in 1..Len(challengeCache[id].participants) :
                challengeCache[id].participants[i].score
                    = scoreOf(statsCache[id].scores, challengeCache[id].participants[i].userId)

\* ---------------------------------------------------------------- C23
\* C23: when the Dashboard has called refreshChallenges(true) after a join the
\* backend confirmed, and the operation that call returned completes
\* successfully, the challenge list contains the joined challenge.
C23_RefreshAfterJoinStep ==
    \A j \in joinCalls : \A p \in DOMAIN reqs :
        (/\ j.pc = "refreshing" /\ j.refresh = p
         /\ refreshChallengesDone(p) /\ reqs[p].ok)
            => \E i \in 1..Len(challenges'.v) : challenges'.v[i].id = j.id
C23_JoinedChallengeListed == [][C23_RefreshAfterJoinStep]_vars

\* ---------------------------------------------------------------- C24
\* the rows of `before` that `keep` selects stand unchanged, at their place, in `after`
RowsKept(before, after, keep(_)) ==
    /\ Len(after) >= Len(before)
    /\ \A i \in 1..Len(before) : keep(before[i]) => after[i] = before[i]
    /\ \A i \in (Len(before) + 1)..Len(after) : ~keep(after[i])

\* the logs addOptimisticLog is tried with: also for a challenge that is not cached
AddInputs ==
    UNION {{log \in LogInputs(id) : log.timestamp = selectedDate \/ log.userId = user} : id \in ChallengeIds}
    \cup {log \in LogInputs("c9") : log.goalId = "g1" /\ log.userId = user}

\* C24: in every cache state and for every log L, addOptimisticLog(c, L) adds
\* L.pointsEarned, negative or not, to the total score of L.userId in the
\* stats of c, to the score of (L.userId, L.goalId), to the daily points of
\* (L.userId, L.goalId, day of L) and to the score of the participant
\* L.userId of the cached challenge c, adds 1 to the period count of L's
\* bucket, creates the stats entry of c when it is missing, and leaves the
\* rows of every other user, goal, day and challenge as they were.
C24_AddOptimisticLogEffect ==
    \A log \in AddInputs :
        LET c == log.challengeId
            u == log.userId
            g == log.goalId
            pts == log.pointsEarned
            before == GetOr(statsCache, c, EMPTY_STATS)
            newStats == addOptimisticStats(statsCache, c, log)
            newCache == addOptimisticChallenge(challengeCache, c, log)
            otherUser(s) == s.user_id # u
            otherGoal(gs) == gs.user_id # u \/ gs.goal_id # g
            otherBucket(pc) == pc.user_id # u \/ pc.goal_id # g \/ pc.period_key # optimisticPeriodKey(log)
            otherDay(dp) == dp.user_id # u \/ dp.goal_id # g \/ dp.day # dayStrOf(log)
        IN /\ c \in DOMAIN newStats
           /\ TotalScore(newStats[c], u) = TotalScore(before, u) + pts
           /\ GoalScore(newStats[c], u, g) = GoalScore(before, u, g) + pts
           /\ DailyPoints(newStats[c], u, g, dayStrOf(log)) = DailyPoints(before, u, g, dayStrOf(log)) + pts
           /\ PeriodCount(newStats[c], u, g, optimisticPeriodKey(log))
                 = PeriodCount(before, u, g, optimisticPeriodKey(log)) + 1
           /\ RowsKept(before.scores, newStats[c].scores, otherUser)
           /\ RowsKept(before.goalScores, newStats[c].goalScores, otherGoal)
           /\ RowsKept(before.periodCounts, newStats[c].periodCounts, otherBucket)
           /\ RowsKept(before.dailyPoints, newStats[c].dailyPoints, otherDay)
           /\ \A k \in DOMAIN statsCache \ {c} : newStats[k] = statsCache[k]
           /\ DOMAIN newStats = DOMAIN statsCache \cup {c}
           /\ DOMAIN newCache = DOMAIN challengeCache
           /\ \A k \in DOMAIN challengeCache \ {c} : newCache[k] = challengeCache[k]
           /\ c \in DOMAIN challengeCache =>
                 /\ newCache[c].goals = challengeCache[c].goals
                 /\ Len(newCache[c].participants) = Len(challengeCache[c].participants)
                 /\ \A i \in 1..Len(challengeCache[c].participants) :
                       LET old == challengeCache[c].participants[i]
                       IN newCache[c].participants[i]
                            = IF old.userId = u THEN [old EXCEPT !.score = old.score + pts] ELSE old

\* handleLogGoal has just added a log to stats that had no row of the user
C24_Witness ==
    /\ last.op = "handleLogGoal"
    /\ last.id \in DOMAIN statsCache /\ last.id \in DOMAIN challengeCache
    /\ TotalScore(statsCache[last.id], user) = last.ret.v.pointsEarned
    /\ ParticipantScore(challengeCache, last.id, user) = last.ret.v.pointsEarned
    /\ PeriodCount(statsCache[last.id], user, last.ret.v.goalId, optimisticPeriodKey(last.ret.v)) = 1

\* ---------------------------------------------------------------- C25
\* the scores the cached challenge `id` shows for user u (none when u is absent)
CachedScores(cache, id, u) ==
    IF id \notin DOMAIN cache THEN {}
    ELSE {cache[id].participants[i].score :
            i \in {k \in 1..Len(cache[id].participants) : cache[id].participants[k].userId = u}}

ScoreChanged(id, u) ==
    /\ CachedScores(challengeCache, id, u) # {}
    /\ CachedScores(challengeCache', id, u) # {}
    /\ CachedScores(challengeCache', id, u) # CachedScores(challengeCache, id, u)

OptimisticStep ==
    \/ \E id \in ChallengeIds : \E i \in 1..Len(SrvGoals(id)) : handleLogGoal(id, mapGoal(SrvGoals(id)[i]))
    \/ \E h \in handlers : handleLogGoalDone(h) \/ handleReduceGoalFound(h) \/ handleReduceGoalDone(h)

\* C25: a completing list refresh or detail refresh leaves the score of every
\* participant that the cached challenge already holds as it was, and a step
\* that changes the score of an already cached participant is the completion
\* of a stats fetch or an optimistic add or remove.
C25_ScoreStep ==
    \A id \in ChallengeIds \cup JoinIds : \A u \in Users \cup {"u3"} :
        /\ (\E p \in DOMAIN reqs : refreshChallengesDone(p) \/ fetchChallengeDetailDone(p))
              => ~ScoreChanged(id, u)
        /\ ScoreChanged(id, u) => (OptimisticStep \/ \E p \in DOMAIN reqs : fetchStatsDone(p))
IncomingParticipant == [userId : {"u1", "u2", "u3"}, name : {"", "Bea"}, avatar : {"", "pic"}, score : {0}]
IncomingInputs ==
    {<<>>} \cup {<<p>> : p \in IncomingParticipant}
    \cup {<<p, q>> : p \in IncomingParticipant,
                     q \in {[userId |-> "u3", name |-> "", avatar |-> "", score |-> 0],
                            [userId |-> "u2", name |-> "Bea", avatar |-> "pic", score |-> 0]}}

\* what C26 states of the merge of `incoming` into the cached participants
MergedAsStated(cached, incoming, merged) ==
    /\ Len(merged) = Len(incoming)
    /\ \A i \in 1..Len(incoming) :
          LET p == incoming[i]
              known == {j \in 1..Len(cached) : cached[j].userId = p.userId}
          IN /\ merged[i].userId = p.userId
             /\ known = {} => merged[i] = p
             /\ known # {} =>
                   /\ merged[i].name \in (IF p.name # "" THEN {p.name} ELSE {cached[j].name : j \in known})
                   /\ merged[i].avatar \in (IF p.avatar # "" THEN {p.avatar} ELSE {cached[j].avatar : j \in known})

\* C26: in every cache state, for every cached challenge and every incoming
\* participant list, the merge of a list refresh and the merge of a detail
\* refresh give exactly the incoming participants, in their order: one that the
\* cache does not know as received, one that it knows with the incoming name
\* and avatar when these are not blank and the cached ones otherwise; a
\* cached participant that is not incoming is gone.
C26_MergeGivesIncomingParticipants ==
    \A id \in DOMAIN challengeCache : \A incoming \in IncomingInputs :
        LET cached == challengeCache[id].participants
            entry == [id |-> id, goals |-> <<>>, participants |-> incoming]
            latest == [id |-> id, goals |-> challengeCache[id].goals, participants |-> incoming]
        IN /\ MergedAsStated(cached, incoming, mergeList(challengeCache, challengeCache, <<entry>>)[id].participants)
           /\ MergedAsStated(cached, incoming, mergeDetail(challengeCache, id, latest)[id].participants)

\* a list refresh with blank names has completed over the detail of a challenge
\* (the detail was invalidated in between and not fetched again): the cached
\* names and avatars stand
C26_Witness ==
    \E id \in DOMAIN challengeCache :
        /\ Invalidated(lastFetchDetail, id)
        /\ last.op = "refreshChallenges" /\ last.net = 1
        /\ reqs = EmptyMap
        /\ lastFetchAll > 0
        /\ \E i \in 1..Len(challengeCache[id].participants) :
              /\ challengeCache[id].participants[i].name = "Ann"
              /\ challengeCache[id].participants[i].avatar = "dicebear"
              /\ challenges.v[1].participants[i].name = ""

\* ---------------------------------------------------------------- C27
\* weeks start on Sunday; day -1 (2023-12-31) is a Sunday
WeekIndex(day) == (day + 1 + 7 * 53) \div 7
SamePeriod(frequency, d1, d2) ==
    IF frequency = "daily" THEN LocalDay(d1) = LocalDay(d2)
    ELSE IF frequency = "weekly" THEN WeekIndex(LocalDay(d1)) = WeekIndex(LocalDay(d2))
    ELSE IF frequency = "monthly" THEN /\ YearOf(LocalDay(d1)) = YearOf(LocalDay(d2))
                                       /\ MonthOf(LocalDay(d1)) = MonthOf(LocalDay(d2))
    ELSE TRUE

\* C27: for every frequency, getPeriodKey gives two dates the same key exactly
\* when they fall in the same period: the same local calendar day for daily,
\* the same week for weekly, also when the week spans a year boundary, the
\* same month for monthly, and any two dates for once.
C27_SameKeyIffSamePeriod ==
    last.op = "getPeriodKey" =>
        \A date \in PeriodDates :
            (getPeriodKey(last.id, date) = last.ret.v.key) <=> SamePeriod(last.id, date, last.ret.v.date)

\* ---------------------------------------------------------------- C28
KeepsEntry(before, after, id) ==
    /\ id \in DOMAIN before <=> id \in DOMAIN after
    /\ id \in DOMAIN before => after[id] = before[id]

\* the cached data, the timestamps, the markers and the requests of challenge B
\* are after the step what they were before
Untouched(B) ==
    /\ KeepsEntry(challengeCache, challengeCache', B)
    /\ KeepsEntry(statsCache, statsCache', B)
    /\ KeepsEntry(lastFetchDetail, lastFetchDetail', B)
    /\ KeepsEntry(lastFetchStats, lastFetchStats', B)
    /\ KeepsEntry(inFlightDetail, inFlightDetail', B)
    /\ KeepsEntry(inFlightStats, inFlightStats', B)
    /\ {p \in DOMAIN reqs : reqs[p].id = B} = {p \in DOMAIN reqs' : reqs'[p].id = B}
    /\ \A p \in DOMAIN reqs : reqs[p].id = B => reqs'[p] = reqs[p]

\* a step of one of the five operations for challenge A: a call or a completion
OperationOn(A) ==
    \/ fetchChallengeDetail(A) \/ fetchStats(A) \/ invalidateChallenge(A)
    \/ \E p \in DOMAIN reqs : reqs[p].id = A /\ (fetchChallengeDetailDone(p) \/ fetchStatsDone(p))
    \/ \E i \in 1..Len(SrvGoals(A)) : handleLogGoal(A, mapGoal(SrvGoals(A)[i]))
    \/ \E h \in handlers : h.id = A /\ handleLogGoalDone(h)

Stale(lastFetch, id) == id \notin DOMAIN lastFetch \/ now - lastFetch[id] >= CACHE_TTL_MS
StartsOwnRequest(op, id) ==
    /\ NotSkipped(op, id)
    /\ last'.ret.p \notin DOMAIN reqs
    /\ reqs'[last'.ret.p].id = id

\* C28: a step of fetchChallengeDetail, fetchStats, invalidateChallenge,
\* addOptimisticLog or removeOptimisticLog for a challenge A leaves the cached
\* challenge, the cached stats, the two timestamps, the two in-flight markers
\* and the requests of every other challenge B as they were; and a fetch for B
\* that is neither fresh nor in flight for B starts its own request, whatever
\* is in flight for A.
C28_IsolationStep ==
    \A A \in PageIds : \A B \in PageIds \ {A} :
        /\ OperationOn(A) => Untouched(B)
        /\ (fetchChallengeDetail(B) /\ Stale(lastFetchDetail, B) /\ B \notin DOMAIN inFlightDetail)
              => StartsOwnRequest("fetchChallengeDetail", B)
        /\ (fetchStats(B) /\ Stale(lastFetchStats, B) /\ B \notin DOMAIN inFlightStats)
              => StartsOwnRequest("fetchStats", B)
C28_ChallengesAreIndependent == [][C28_IsolationStep]_vars

\* the stats fetch of one challenge has started while the detail and the stats
\* of the other were in flight, an optimistic log of the other being cached,
\* and the started challenge's detail being cached
C28_Witness ==
    \E A \in PageIds : \E B \in PageIds \ {A} :
        /\ last.op = "fetchStats" /\ last.id = B /\ last.net = 1
        /\ B \in DOMAIN inFlightStats
        /\ B \in DOMAIN challengeCache
        /\ A \in DOMAIN inFlightDetail /\ A \in DOMAIN inFlightStats
        /\ A \in DOMAIN statsCache /\ TotalScore(statsCache[A], user) = 10

\* ---------------------------------------------------------------- C29
\* C29: an updateChallenge call in which a backend step has failed (the header
\* update, the select of the existing goal ids, a goal delete, upsert or
\* insert) has thrown: it has not returned normally.
C29_FailedStepThrows ==
    \A c \in updateCalls : c.failed # {} => c.pc = "thrown"

\* ---------------------------------------------------------------- C30
\* C30: in every state, whatever joinChallenge calls with role participant
\* have run and however they interleaved, a challenge has at most max_players
\* participant rows.
C30_NeverMoreThanMaxPlayers ==
    \A id \in JoinIds : Cardinality(participantsOf(id)) <= SrvMaxPlayers(id)

====
